---- MODULE Spec2Model ----
(***************************************************************************)
(* Model of the analytics pipeline of the educational dashboard:           *)
(*   src/src/data_loader.py   load_student_data, clean_data,               *)
(*                            generate_sample_data                         *)
(*   src/src/analyzer.py      analyze_performance,                         *)
(*                            identify_at_risk_students,                   *)
(*                            predict_final_grades,                        *)
(*                            generate_recommendations,                    *)
(*                            calculate_subject_statistics                 *)
(*   src/src/utils.py         generate_report                              *)
(*   src/scripts/generate_report.py   main                                 *)
(*                                                                         *)
(* Every function is a computation over an in-memory table, so each one    *)
(* is a single action that takes the table held in df and writes its       *)
(* return value; analyze_performance also writes a week column into df.    *)
(* Each function has its own specification, whose Init draws the argument  *)
(* table from a bounded set; the files read and written by the loader and  *)
(* the script are held in files.                                           *)
(*                                                                         *)
(* Numbers.  Grades are reals in the source.  Here a grade is an integer   *)
(* number of units, GradeScale units to one grade point.  A mean is kept   *)
(* as the exact fraction <<sum, count>> and compared by cross              *)
(* multiplication, so no comparison is decided by a truncation.            *)
(* Attendance is an integer number of hundredths (100 = 1.0).              *)
(* A cell that may be missing (NaN / None) is None or Some(v).             *)
(***************************************************************************)
EXTENDS Integers, Sequences, FiniteSets, TLC

VARIABLES
    pc,            \* the function about to be called, or the mark of its return
    df,            \* the table passed to the function, or loaded: a sequence of rows
    columns,       \* the column names of df
    args,          \* the keyword arguments of the call
    df_clean,      \* return value of clean_data
    risk_students, \* results['risk_students'] of analyze_performance
    risk_df,       \* return value of identify_at_risk_students
    predictions,   \* return value of predict_final_grades
    recommendations, \* return value of generate_recommendations
    results,       \* return value of analyze_performance (the whole mapping)
    subject_stats, \* return value of calculate_subject_statistics
    report,        \* return value of generate_report
    raised,        \* the exception that ended the call, or None
    clock,         \* the number of calls that have read datetime.now()
    library,       \* what the library calls of analyze_performance did
    files,         \* the file system: the entry of every path that exists
    exit_code      \* the exit status of a command line run, or None

vars == <<pc, df, columns, args, df_clean, risk_students, risk_df, predictions,
          recommendations, results, subject_stats, report, raised, clock, library,
          files, exit_code>>

----------------------------------------------------------------------------
(* Bounds of the model *)

\* longest raw table handed to clean_data
MaxRawRows == 2

----------------------------------------------------------------------------
(* Representation of cells and numbers *)

\* two units per hundredth of a grade point: the mean of two grades given in
\* hundredths (the median of an even group) is a whole number of units
GradeScale == 2 * 100

\* n grade points, in units
G(n) == n * GradeScale

None == <<>>

\* the file system without any file
NoFiles == [p \in {} |-> None]
Some(v) == <<v>>
IsNull(c) == c = <<>>
Val(c) == c[1]

\* the set 1..Len(s) restricted to I, as the subsequence of s in table order
RECURSIVE TakeRows(_, _, _)
TakeRows(s, I, i) ==
    IF i > Len(s) THEN <<>>
    ELSE IF i \in I THEN <<s[i]>> \o TakeRows(s, I, i + 1)
    ELSE TakeRows(s, I, i + 1)

\* boolean-mask selection df[mask]
Select(s, I) == TakeRows(s, I, 1)

\* ascending sort of a sequence of integers (insertion sort)
RECURSIVE InsertSorted(_, _)
InsertSorted(s, x) ==
    IF s = <<>> THEN <<x>>
    ELSE IF x <= Head(s) THEN <<x>> \o s
    ELSE <<Head(s)>> \o InsertSorted(Tail(s), x)

RECURSIVE SortInts(_)
SortInts(s) == IF s = <<>> THEN <<>> ELSE InsertSorted(SortInts(Tail(s)), Head(s))

----------------------------------------------------------------------------
(* data_loader.clean_data *)

\* DataFrame.drop_duplicates(): keep the first of every group of rows equal in
\* all columns (a missing cell equals a missing cell)
drop_duplicates(t) ==
    Select(t, {i \in 1..Len(t) : \A j \in 1..(i - 1) : t[j] # t[i]})

\* Series.median() of a non-empty list of known grades
median(gs) ==
    LET s == SortInts(gs)
        n == Len(s)
    IN  IF n % 2 = 1 THEN s[(n + 1) \div 2]
        ELSE (s[n \div 2] + s[n \div 2 + 1]) \div 2

\* the medians taken over the grades of the valid range only
subject_medians_mut(t, i) ==
    LET I == {j \in 1..Len(t) : /\ t[j].subject = t[i].subject /\ ~IsNull(t[j].grade)
                                /\ Val(t[j].grade) >= G(1) /\ Val(t[j].grade) <= G(10)}
        gs == [k \in 1..Len(Select(t, I)) |-> Val(Select(t, I)[k].grade)]
    IN  IF IsNull(t[i].subject) \/ I = {} THEN None ELSE Some(median(gs))

\* groupby('subject')['grade'].transform('median') at row i: the median of the
\* known grades of the rows with the same subject; missing when the subject is
\* missing (groupby drops that key) or the subject has no known grade
subject_medians(t, i) ==
    LET I == {j \in 1..Len(t) : t[j].subject = t[i].subject /\ ~IsNull(t[j].grade)}
        gs == [k \in 1..Len(Select(t, I)) |-> Val(Select(t, I)[k].grade)]
    IN  IF IsNull(t[i].subject) \/ I = {} THEN None ELSE Some(median(gs))

\* df['grade'].fillna(subject_medians)
fillna_grade(t) ==
    [i \in 1..Len(t) |->
        IF IsNull(t[i].grade) THEN [t[i] EXCEPT !.grade = subject_medians(t, i)]
        ELSE t[i]]

\* the value written into a missing attendance cell: 1.0
FullAttendance == 100

\* df['attendance'].fillna(1.0), when the column exists
fillna_attendance(t, cols) ==
    IF "attendance" \in cols
    THEN [i \in 1..Len(t) |->
            IF IsNull(t[i].attendance)
            THEN [t[i] EXCEPT !.attendance = Some(FullAttendance)]
            ELSE t[i]]
    ELSE t

\* dropna(subset=['student_id', 'grade', 'subject'])
dropna(t) ==
    Select(t, {i \in 1..Len(t) :
        ~IsNull(t[i].student_id) /\ ~IsNull(t[i].grade) /\ ~IsNull(t[i].subject)})

\* the range mask with the upper limit forgotten
valid_grade_mut(g) == g >= G(1)

\* the range mask (grade >= 1) & (grade <= 10)
valid_grade(g) == g >= G(1) /\ g <= G(10)

filter_grades(t) == Select(t, {i \in 1..Len(t) : valid_grade(Val(t[i].grade))})

\* astype(str) of one student_id cell: the type tag becomes str, the text stays
astype_str(c) == <<"str", c[2]>>

coerce_ids(t) == [i \in 1..Len(t) |-> [t[i] EXCEPT !.student_id = astype_str(@)]]

\* the last day of each month of the year of the dates
MonthEnds == <<31, 59, 90, 120, 151, 181, 212, 243, 273, 304, 334, 365>>

\* Series.dt.month
month_of(d) == 1 + Cardinality({m \in 1..11 : d > MonthEnds[m]})

\* Series.dt.day_name(), day 1 a Monday
day_name(d) ==
    <<"Monday", "Tuesday", "Wednesday", "Thursday", "Friday", "Saturday",
      "Sunday">>[((d - 1) % 7) + 1]

\* the week, month and day_of_week columns written from the date column,
\* when the table has one; a missing date gives missing values
derive_date_fields(t, cols) ==
    IF "date" \in cols
    THEN [i \in 1..Len(t) |->
            LET d == t[i].date IN
            [c \in (DOMAIN t[i]) \cup {"week", "month", "day_of_week"} |->
                IF c = "week"
                THEN IF IsNull(d) THEN None ELSE Some(((Val(d) - 1) \div 7) + 1)
                ELSE IF c = "month"
                THEN IF IsNull(d) THEN None ELSE Some(month_of(Val(d)))
                ELSE IF c = "day_of_week"
                THEN IF IsNull(d) THEN None ELSE Some(day_name(Val(d)))
                ELSE t[i][c]]]
    ELSE t

\* the whole of clean_data, in the order of the source, on df.copy()
clean_data(t, cols) ==
    derive_date_fields(
        coerce_ids(filter_grades(dropna(
            fillna_attendance(fillna_grade(drop_duplicates(t)), cols)))),
        cols)

----------------------------------------------------------------------------
(* Raw input of clean_data *)

\* student_id cells <<type, digits>>: the number 1, the text "1", a missing cell
RawIds == {<<"int", 1>>, <<"str", 1>>, None}
RawSubjects == {Some("Math"), Some("Physics"), None}
\* grade cells: missing, 8.0, 12.0 (out of range)
RawGrades == {None, Some(G(8)), Some(G(12))}
RawAttendance == {None, Some(50)}

RawRowsPlain == [student_id : RawIds, subject : RawSubjects, grade : RawGrades]
RawRowsAtt ==
    [student_id : RawIds, subject : RawSubjects, grade : RawGrades,
     attendance : RawAttendance]

TablesOf(Rows, n) == UNION {[1..k -> Rows] : k \in 0..n}

\* three rows of one subject in any order, with the grades missing, 8.0 and
\* 12.0: the median of the known grades is 10.0
ImputeTables ==
    {t \in [1..3 -> [student_id : {<<"int", 1>>, None}, subject : {Some("Math")},
                     grade : RawGrades]] :
        {t[i].grade : i \in 1..3} = RawGrades}

CleanInit ==
    /\ pc = "clean_data"
    /\ \/ columns = {"student_id", "subject", "grade"}
          /\ df \in TablesOf(RawRowsPlain, MaxRawRows) \cup ImputeTables
       \/ columns = {"student_id", "subject", "grade", "attendance"}
          /\ df \in TablesOf(RawRowsAtt, MaxRawRows)
    /\ args = <<>>
    /\ df_clean = <<>>
    /\ risk_students = <<>>
    /\ risk_df = <<>>
    /\ predictions = <<>>
    /\ recommendations = <<>>
    /\ results = <<>>
    /\ subject_stats = <<>>
    /\ report = <<>>
    /\ raised = None
    /\ clock = 0
    /\ library = <<>>
    /\ files = NoFiles
    /\ exit_code = None

CleanData ==
    /\ pc = "clean_data"
    /\ df_clean' = clean_data(df, columns)
    /\ pc' = "cleaned"
    /\ UNCHANGED <<df, columns, args, risk_students, risk_df, predictions,
                 recommendations, results, subject_stats, report, raised,
                 clock, library,
                 files, exit_code>>

CleanNext == CleanData

SpecClean == CleanInit /\ [][CleanNext]_vars

----------------------------------------------------------------------------
(* Claims about clean_data *)

\* C1: every row returned by clean_data has a known student_id, a known
\* subject and a known grade with 1 <= grade <= 10; when the table has an
\* attendance column the attendance is known too, and it is 1.0 wherever the
\* input row it comes from had none.
C1_CleanedRowsValid ==
    pc = "cleaned" =>
        \A k \in 1..Len(df_clean) :
            LET r == df_clean[k] IN
            /\ ~IsNull(r.student_id) /\ ~IsNull(r.subject) /\ ~IsNull(r.grade)
            /\ G(1) <= Val(r.grade) /\ Val(r.grade) <= G(10)
            /\ "attendance" \in columns => ~IsNull(r.attendance)
            /\ \E i \in 1..Len(df) :
                  /\ ~IsNull(df[i].student_id)
                  /\ r.student_id = astype_str(df[i].student_id)
                  /\ r.subject = df[i].subject
                  /\ IsNull(df[i].grade) \/ r.grade = df[i].grade
                  /\ "attendance" \in columns =>
                        r.attendance = IF IsNull(df[i].attendance)
                                       THEN Some(FullAttendance)
                                       ELSE df[i].attendance

\* a two-row table with an attendance column: one row has no attendance and
\* is kept with attendance 1.0, the other has grade 12 and is dropped
C1_Witness ==
    /\ pc = "cleaned"
    /\ "attendance" \in columns
    /\ Len(df) = 2 /\ Len(df_clean) = 1
    /\ \E i \in 1..2 : df[i].grade = Some(G(12))
    /\ \E i \in 1..2 : IsNull(df[i].attendance) /\ df[i].grade = Some(G(8))
    /\ df_clean[1].attendance = Some(FullAttendance)

\* C2: the table returned by clean_data has no two rows that are equal in
\* every column.
C2_NoDuplicateRows ==
    pc = "cleaned" =>
        \A i, j \in 1..Len(df_clean) : i # j => df_clean[i] # df_clean[j]

\* the rows of df that are no repetition of an earlier row
Distinct == {i \in 1..Len(df) : \A j \in 1..(i - 1) : df[j] # df[i]}

\* the known grades of the subject of row i among the distinct rows of df,
\* in ascending order
SubjectGrades(i) ==
    SortInts(Select([j \in 1..Len(df) |-> IF IsNull(df[j].grade) THEN 0 ELSE Val(df[j].grade)],
                    {j \in Distinct : df[j].subject = df[i].subject /\ ~IsNull(df[j].grade)}))

\* the middle of an ascending list, the mean of the two middle ones
Middle(s) ==
    IF Len(s) % 2 = 1 THEN s[(Len(s) + 1) \div 2]
    ELSE (s[Len(s) \div 2] + s[(Len(s) \div 2) + 1]) \div 2

\* df_clean has row i of df with the grade g filled in
KeptWith(i, g) ==
    /\ ~IsNull(df[i].student_id)
    /\ \E k \in 1..Len(df_clean) :
          /\ df_clean[k].student_id = <<"str", df[i].student_id[2]>>
          /\ df_clean[k].subject = df[i].subject
          /\ df_clean[k].grade = Some(g)
          /\ "attendance" \in columns =>
                df_clean[k].attendance = IF IsNull(df[i].attendance)
                                         THEN Some(FullAttendance)
                                         ELSE df[i].attendance

\* df_clean has a row of the subject of row i
Kept(i) == \E k \in 1..Len(df_clean) : df_clean[k].subject = df[i].subject

\* the distinct rows with a missing grade and a known subject
Imputable == {i \in Distinct : IsNull(df[i].grade) /\ ~IsNull(df[i].subject)}

\* C26 as stated: a row whose grade is missing and whose subject is known
\* receives the median of the known grades of the same subject, taken over
\* the de-duplicated rows before the range filter; the row is kept exactly
\* when that median lies in [1, 10], and dropped when the subject has no
\* known grade at all.
C26_ImputedKeptIffInRange ==
    pc = "cleaned" =>
        \A i \in Imputable :
            IF SubjectGrades(i) = <<>> THEN ~Kept(i)
            ELSE KeptWith(i, Middle(SubjectGrades(i)))
                 <=> (G(1) <= Middle(SubjectGrades(i)) /\ Middle(SubjectGrades(i)) <= G(10))

\* C26, amended: such a row is kept, with the median as its grade, exactly
\* when the median lies in [1, 10] and the student_id of the row is known;
\* it is dropped when the subject has no known grade at all.
C26_ImputedKeptIffInRangeAndIdKnown ==
    pc = "cleaned" =>
        \A i \in Imputable :
            IF SubjectGrades(i) = <<>> THEN ~Kept(i)
            ELSE KeptWith(i, Middle(SubjectGrades(i)))
                 <=> /\ G(1) <= Middle(SubjectGrades(i))
                     /\ Middle(SubjectGrades(i)) <= G(10)
                     /\ ~IsNull(df[i].student_id)

\* a row without grade is kept with 10.0, the median of 8.0 and the
\* out-of-range 12.0 of its subject, and the row with 12.0 is dropped
C26_Witness ==
    /\ pc = "cleaned"
    /\ \E i \in Imputable :
          /\ SubjectGrades(i) = <<G(8), G(12)>>
          /\ KeptWith(i, G(10))
    /\ \A k \in 1..Len(df_clean) : df_clean[k].grade # Some(G(12))

----------------------------------------------------------------------------
(* data_loader.load_student_data                                            *)
(* The entry of a path in the file system is a directory or a CSV file: the *)
(* encoding of its bytes (cp1251 for a text with Cyrillic letters that is   *)
(* no valid UTF-8), the names of its header line (ASCII in both encodings), *)
(* the type its date column parses to and its rows as read_csv types them.  *)

Directory ==
    [kind |-> "dir", encoding |-> "none", columns |-> {}, dates |-> "none", rows |-> <<>>]

\* dates is the type read_csv gives the date column: datetime64, or object
\* when a cell is no date
CsvFile(encoding, cols, dates, rows) ==
    [kind |-> "file", encoding |-> encoding, columns |-> cols, dates |-> dates,
     rows |-> rows]

\* pd.read_csv(filepath, encoding=..., parse_dates=['date'],
\* infer_datetime_format=True) raises: the path is a directory, the bytes are
\* no text of the encoding, or parse_dates names a column the file has not
read_csv_raises(file, encoding) ==
    \/ file.kind = "dir"
    \/ encoding = "utf-8" /\ file.encoding = "cp1251"
    \/ "date" \notin file.columns

\* required_columns, and the missing_columns of a header
required_columns == {"student_id", "grade", "subject"}
missing_columns(cols) == required_columns \ cols

\* load_student_data(filepath) on the file system fs: the exception raised,
\* or the table returned
load_student_data(fs, filepath) ==
    IF filepath \notin DOMAIN fs
    THEN [raised |-> Some("FileNotFoundError"), value |-> None]
    ELSE IF read_csv_raises(fs[filepath], "utf-8") /\ read_csv_raises(fs[filepath], "cp1251")
    THEN [raised |-> Some("ValueError"), value |-> None]
    ELSE IF missing_columns(fs[filepath].columns) # {}
    THEN [raised |-> Some("ValueError"), value |-> None]
    ELSE [raised |-> None, value |-> Some(fs[filepath])]

\* longest data file
MaxFileRows == 2

OptionalColumns == {"group", "week", "date", "attendance"}

\* the headers of the data files: the required columns with any of the
\* optional ones, and headers without one or all of the required columns
Headers ==
    {required_columns \cup o : o \in SUBSET OptionalColumns}
    \cup {(required_columns \ {c}) \cup {"date"} : c \in required_columns}
    \cup {{"student_id", "subject"}, {}}

\* one row of a file with the header cols; g is its grade cell
FileRow(cols, g) ==
    [c \in cols |->
        IF c = "student_id" THEN <<"int", 1>>
        ELSE IF c = "grade" THEN g
        ELSE IF c = "date" THEN Some(9)
        ELSE IF c = "attendance" THEN Some(50)
        ELSE Some(1)]

FileGrades == {None, Some(G(3)), Some(G(12))}

DataFiles ==
    {CsvFile(e, cols, IF "date" \in cols THEN d ELSE "none",
             [k \in 1..n |-> FileRow(cols, gs[k])]) :
        e \in {"utf-8", "cp1251"}, cols \in Headers, d \in {"datetime64", "object"},
        n \in 0..MaxFileRows, gs \in [1..MaxFileRows -> FileGrades]}

DataPath == "data/raw/grades.csv"

LoadInit ==
    /\ pc = "load_student_data"
    /\ args = [filepath |-> DataPath]
    /\ files \in {NoFiles, DataPath :> Directory} \cup {DataPath :> f : f \in DataFiles}
    /\ df = <<>>
    /\ columns = {}
    /\ df_clean = <<>>
    /\ risk_students = <<>>
    /\ risk_df = <<>>
    /\ predictions = <<>>
    /\ recommendations = <<>>
    /\ results = <<>>
    /\ subject_stats = <<>>
    /\ report = <<>>
    /\ raised = None
    /\ clock = 0
    /\ library = <<>>
    /\ exit_code = None

LoadStudentData ==
    /\ pc = "load_student_data"
    /\ LET r == load_student_data(files, args.filepath)
       IN  IF IsNull(r.raised)
           THEN /\ df' = Val(r.value).rows
                /\ columns' = Val(r.value).columns
                /\ raised' = None
                /\ pc' = "loaded"
           ELSE /\ raised' = r.raised
                /\ pc' = "failed"
                /\ UNCHANGED <<df, columns>>
    /\ UNCHANGED <<args, df_clean, risk_students, risk_df, predictions,
                 recommendations, results, subject_stats, report, clock, library,
                 files, exit_code>>

LoadNext == LoadStudentData

SpecLoad == LoadInit /\ [][LoadNext]_vars

\* C23: load_student_data returns a table if and only if the file exists and
\* contains the columns student_id, subject and grade, whether or not the
\* optional columns group, week, date and attendance are present; it raises
\* FileNotFoundError when the file does not exist and ValueError when a
\* required column is absent, and returns nothing in either error case.
C23_LoadsIffRequiredColumns ==
    pc \in {"loaded", "failed"} =>
        LET exists == args.filepath \in DOMAIN files
            complete == exists /\ files[args.filepath].kind = "file"
                        /\ required_columns \subseteq files[args.filepath].columns
        IN  /\ pc = "loaded" <=> complete
            /\ ~exists => raised = Some("FileNotFoundError")
            /\ exists /\ ~complete => raised = Some("ValueError")
            /\ pc = "failed" => df = <<>> /\ columns = {}

----------------------------------------------------------------------------
(* Arithmetic shared by the analyzer functions *)

\* A fraction is <<p, q>> with q > 0 and stands for p / q.
FracLT(a, b) == a[1] * b[2] < b[1] * a[2]
FracLE(a, b) == a[1] * b[2] <= b[1] * a[2]
FracEq(a, b) == a[1] * b[2] = b[1] * a[2]

\* p / q (q > 0) rounded to the nearest integer, ties to the even one, as
\* numpy's round and Python's format do
RoundHalfEven(p, q) ==
    LET a == IF p < 0 THEN -p ELSE p
        f == a \div q
        r == a % q
        n == IF 2 * r < q THEN f
             ELSE IF 2 * r > q THEN f + 1
             ELSE IF f % 2 = 0 THEN f ELSE f + 1
    IN  IF p < 0 THEN -n ELSE n

RECURSIVE SumSeq(_)
SumSeq(s) == IF s = <<>> THEN 0 ELSE Head(s) + SumSeq(Tail(s))

RECURSIVE ProdSeq(_)
ProdSeq(s) == IF s = <<>> THEN 1 ELSE Head(s) * ProdSeq(Tail(s))

\* a common denominator of a list of fractions, and the fractions over it
CommonDen(y) == ProdSeq([k \in 1..Len(y) |-> y[k][2]])
Scaled(y) == [k \in 1..Len(y) |-> y[k][1] * (CommonDen(y) \div y[k][2])]

\* F(e), with e evaluated once however often F reads it
Let(e, F(_)) == CHOOSE r \in {F(x) : x \in {e}} : TRUE

RECURSIVE Concat(_)
Concat(ss) == IF ss = <<>> THEN <<>> ELSE Head(ss) \o Concat(Tail(ss))

\* the distinct members of a set of integers in ascending order (the key order
\* of groupby and sort_index)
RECURSIVE SortedKeys(_)
SortedKeys(S) ==
    IF S = {} THEN <<>>
    ELSE LET m == CHOOSE x \in S : \A y \in S : x <= y
         IN  <<m>> \o SortedKeys(S \ {m})

\* Series.unique(): the distinct values in order of first appearance
unique(s) == Select(s, {i \in 1..Len(s) : \A j \in 1..(i - 1) : s[j] # s[i]})

Column(t, c) == [i \in 1..Len(t) |-> t[i][c]]

\* df[df[c] == v]
RowsWhere(t, c, v) == Select(t, {i \in 1..Len(t) : t[i][c] = v})

\* the sum divided by one more than the count
mean_grade_mut(t) == <<SumSeq(Column(t, "grade")), Len(t) + 1>>

\* Series.mean() of the grades of a non-empty table, as the fraction sum/count
mean_grade(t) == <<SumSeq(Column(t, "grade")), Len(t)>>

\* NaN, the mean, median, minimum or maximum of no value at all: the
\* fraction 0/0
NaN == <<0, 0>>

IsNaN(f) == f[2] = 0

\* Series.nunique()
nunique(t, c) == Cardinality({t[i][c] : i \in 1..Len(t)})

\* student_data.groupby('week')['grade'].mean().sort_index(): the weekly mean
\* grades <<sum, count>> in ascending week order
weekly_grades(rows) ==
    LET ws == SortedKeys({rows[i].week : i \in 1..Len(rows)})
    IN  [k \in 1..Len(ws) |-> mean_grade(RowsWhere(rows, "week", ws[k]))]

\* the positions 1..n of the weeks in place of the week numbers
weekly_index_mut(rows) ==
    [k \in 1..Cardinality({rows[i].week : i \in 1..Len(rows)}) |-> k]

\* the weeks of weekly_grades, its index
weekly_index(rows) == SortedKeys({rows[i].week : i \in 1..Len(rows)})

\* np.polyfit(x, y, 1) for distinct integer x and fractions y: the least
\* squares line, as <<slope, intercept>>, both fractions
polyfit(x, y) ==
    LET n == Len(x)
        Y == Scaled(y)
        Sx == SumSeq(x)
        Sxx == SumSeq([k \in 1..n |-> x[k] * x[k]])
        SY == SumSeq(Y)
        SxY == SumSeq([k \in 1..n |-> x[k] * Y[k]])
        den == CommonDen(y) * (n * Sxx - Sx * Sx)
    IN  <<  <<n * SxY - Sx * SY, den>>,  <<Sxx * SY - Sx * SxY, den>>  >>

\* np.arange(n)
arange(n) == [k \in 1..n |-> k - 1]

\* A date is the number of a day of a year that begins on a Monday with its
\* ISO week 1 (2018): day 1 is Monday 1 January.
\* Series.dt.isocalendar().week of one date
isocalendar_week(d) == ((d - 1) \div 7) + 1

\* df['week'] = df['date'].dt.isocalendar().week: the column is added, or
\* replaced when the table has one
assign_week(t) ==
    [i \in 1..Len(t) |->
        [c \in (DOMAIN t[i]) \cup {"week"} |->
            IF c = "week" THEN isocalendar_week(t[i].date) ELSE t[i][c]]]

----------------------------------------------------------------------------
(* analyzer.analyze_performance, step 4: the risk list                     *)
(* A student_id is the number n of the identifier 'STDnnn', a subject the   *)
(* number of its name in alphabetical order, so that the order of the       *)
(* numbers is the order of the strings.  grade_std is carried to the        *)
(* output without taking part in a decision and is left out.                *)

\* DataFrame.round(2) of a mean grade: hundredths of a grade point
round2(m) == RoundHalfEven(m[1] * 100, m[2] * GradeScale)

\* groupby('student_id').agg(mean, count, nunique).round(2).reset_index():
\* one row per student in ascending student_id order
student_stats(t) ==
    LET ids == SortedKeys({t[i].student_id : i \in 1..Len(t)})
    IN  [k \in 1..Len(ids) |->
            LET rows == RowsWhere(t, "student_id", ids[k])
            IN  [student_id |-> ids[k],
                 avg_grade |-> round2(mean_grade(rows)),
                 grade_count |-> Len(rows),
                 subject_count |-> nunique(rows, "subject")]]

\* student_stats[student_stats['grade_count'] >= min_records]
enough_records(st, min_records) == st.grade_count >= min_records

\* student_stats['avg_grade'] < risk_threshold, avg_grade in hundredths and
\* the threshold in grade units
below_threshold(st, risk_threshold) == st.avg_grade * GradeScale < risk_threshold * 100

\* 'high' if student['avg_grade'] < 4.0 else 'medium'
risk_level(st) == IF st.avg_grade * GradeScale < G(4) * 100 THEN "high" ELSE "medium"

\* the test of the loop without its date half
loop_has_weeks_mut(cols) == "week" \in cols

\* 'week' in df.columns or 'date' in df.columns, in the loop over the risk
\* students
loop_has_weeks(cols) == "week" \in cols \/ "date" \in cols

\* student_data, a selection of df and so a table of its own, with the week
\* column it gets from the date when df has none
student_weeks(rows, cols) ==
    IF "week" \notin cols /\ "date" \in cols THEN assign_week(rows) ELSE rows

\* 'positive' if slope > 0.1 else 'negative' if slope < -0.1 else 'stable'
slope_trend(slope) ==
    IF 10 * slope[1] > slope[2] * GradeScale THEN "positive"
    ELSE IF 10 * slope[1] < -(slope[2] * GradeScale) THEN "negative"
    ELSE "stable"

\* the trend and trend_slope entries of one risk student: none unless the
\* student has grades in more than one week
trend_info(rows, cols) ==
    LET y == weekly_grades(student_weeks(rows, cols))
        slope == polyfit(arange(Len(y)), y)[1]
    IN  IF loop_has_weeks(cols) /\ Len(y) > 1
        THEN [trend |-> slope_trend(slope), trend_slope |-> slope]
        ELSE <<>>

\* student_info of one row of risk_students, with the groups of the student
\* when the table has a group column and the trend when it has weeks
risk_info(t, cols, st) ==
    LET rows == RowsWhere(t, "student_id", st.student_id)
        base == [student_id |-> st.student_id,
                 avg_grade |-> st.avg_grade,
                 grade_count |-> st.grade_count,
                 subject_count |-> st.subject_count,
                 risk_level |-> risk_level(st)]
        groups == IF "group" \in cols
                  THEN [groups |-> unique(Column(rows, "group"))] ELSE <<>>
    IN  base @@ groups @@ trend_info(rows, cols)

\* results['risk_students'] of analyze_performance(df, risk_threshold, min_records)
analyze_risk_students(t, cols, risk_threshold, min_records) ==
    LET stats == student_stats(t)
        kept == Select(stats, {k \in 1..Len(stats) :
                    /\ enough_records(stats[k], min_records)
                    /\ below_threshold(stats[k], risk_threshold)})
    IN  [k \in 1..Len(kept) |-> risk_info(t, cols, kept[k])]

----------------------------------------------------------------------------
(* analyzer.analyze_performance, steps 1 to 3: the overall, per-subject and *)
(* per-group statistics.  A statistic is a fraction, NaN over no record.    *)
(* The standard deviations (std_grade) are square roots that no decision    *)
(* reads and are left out.                                                  *)

grades_of(t) == Column(t, "grade")

\* Series.median(): the middle one of the sorted grades, or the mean of the
\* two middle ones
median_grade(t) ==
    LET g == SortInts(grades_of(t))
        n == Len(g)
    IN  IF n = 0 THEN NaN
        ELSE IF n % 2 = 1 THEN <<g[(n + 1) \div 2], 1>>
        ELSE <<g[n \div 2] + g[(n \div 2) + 1], 2>>

\* Series.min() and Series.max()
min_grade(t) ==
    IF t = <<>> THEN NaN
    ELSE <<CHOOSE g \in {t[i].grade : i \in 1..Len(t)} :
               \A i \in 1..Len(t) : g <= t[i].grade, 1>>

max_grade(t) ==
    IF t = <<>> THEN NaN
    ELSE <<CHOOSE g \in {t[i].grade : i \in 1..Len(t)} :
               \A i \in 1..Len(t) : g >= t[i].grade, 1>>

\* value_counts().sort_index().to_dict(): the number of records of each grade
grade_distribution(t) ==
    [g \in {t[i].grade : i \in 1..Len(t)} |->
        Cardinality({i \in 1..Len(t) : t[i].grade = g})]

\* results['overall'], with total_groups when the table has a group column
overall(t, cols) ==
    LET base == [total_records |-> Len(t),
                 total_students |-> nunique(t, "student_id"),
                 total_subjects |-> nunique(t, "subject"),
                 mean_grade |-> mean_grade(t),
                 median_grade |-> median_grade(t),
                 min_grade |-> min_grade(t),
                 max_grade |-> max_grade(t),
                 grade_distribution |-> grade_distribution(t)]
    IN  IF "group" \in cols
        THEN base @@ ("total_groups" :> nunique(t, "group"))
        ELSE base

\* A boolean mask over the records of a table is the set of the positions
\* where it is true.

\* the passing grade 5.0 in place of 4.0
passes_mut(t) == {i \in 1..Len(t) : t[i].grade >= G(5)}

\* subject_data['grade'] >= 4
passes(t) == {i \in 1..Len(t) : t[i].grade >= G(4)}

\* subject_data['grade'] >= 9
excellent(t) == {i \in 1..Len(t) : t[i].grade >= G(9)}

\* (mask).mean() * 100 of the boolean mask that is true at the records I of
\* t: 100 times the share of those records
percent(t, I) ==
    IF t = <<>> THEN NaN ELSE <<100 * Cardinality(I), Len(t)>>

\* results['by_subject']: one entry per value of df['subject'].unique()
by_subject(t) ==
    [c \in {t[i].subject : i \in 1..Len(t)} |->
        LET subject_data == RowsWhere(t, "subject", c)
        IN  [mean_grade |-> mean_grade(subject_data),
             median_grade |-> median_grade(subject_data),
             student_count |-> nunique(subject_data, "student_id"),
             record_count |-> Len(subject_data),
             pass_rate |-> percent(subject_data, passes(subject_data)),
             excellent_rate |-> percent(subject_data, excellent(subject_data)),
             grade_distribution |-> grade_distribution(subject_data)]]

\* group_data['attendance'].mean() * 100 when there is an attendance column
attendance_rate(t, cols) ==
    IF "attendance" \in cols
    THEN Some(<<SumSeq(Column(t, "attendance")) * 100, FullAttendance * Len(t)>>)
    ELSE None

\* results['by_group']: one entry per group, none without a group column
by_group(t, cols) ==
    IF "group" \in cols
    THEN [g \in {t[i].group : i \in 1..Len(t)} |->
             LET group_data == RowsWhere(t, "group", g)
             IN  [mean_grade |-> mean_grade(group_data),
                  median_grade |-> median_grade(group_data),
                  student_count |-> nunique(group_data, "student_id"),
                  subject_count |-> nunique(group_data, "subject"),
                  pass_rate |-> percent(group_data, passes(group_data)),
                  attendance_rate |-> attendance_rate(group_data, cols)]]
    ELSE <<>>

----------------------------------------------------------------------------
(* analyzer.analyze_performance, step 6: the correlations between subjects  *)
(* A correlation coefficient is a square root; it is kept as its sign and   *)
(* its square, the fraction cov^2 / (var_x * var_y), which decide every     *)
(* comparison of |correlation| exactly.                                     *)

\* df.pivot_table(index='student_id', columns='subject', values='grade',
\* aggfunc='mean'): the mean grade of each student in each subject, missing
\* where the student has no record of the subject
pivot_table(t) ==
    [s \in {t[i].student_id : i \in 1..Len(t)} |->
        [c \in {t[i].subject : i \in 1..Len(t)} |->
            LET rows == RowsWhere(RowsWhere(t, "student_id", s), "subject", c)
            IN  IF rows = <<>> THEN None ELSE Some(mean_grade(rows))]]

\* the column labels of the pivot table, in ascending order
pivot_columns(t) == SortedKeys({t[i].subject : i \in 1..Len(t)})

\* thresh of dropna(thresh=3)
MinSubjects == 3

\* the index of pivot_table(...).dropna(thresh=3): the students with at least
\* 3 subjects, in ascending order
pivot_index(t) ==
    LET p == pivot_table(t)
    IN  SortedKeys({s \in DOMAIN p :
            Cardinality({c \in DOMAIN p[s] : ~IsNull(p[s][c])}) >= MinSubjects})

RECURSIVE GCD(_, _)
GCD(a, b) == IF b = 0 THEN a ELSE GCD(b, a % b)

RECURSIVE GCDSeq(_)
GCDSeq(xs) == IF xs = <<>> THEN 0 ELSE GCD(Head(xs), GCDSeq(Tail(xs)))

\* the fractions xs as whole numbers in one unit: a correlation does not
\* depend on the unit
InOneUnit(xs) ==
    LET X == Scaled(xs)
        g == GCDSeq(X)
    IN  IF g = 0 THEN X ELSE [k \in 1..Len(X) |-> X[k] \div g]

\* the Pearson coefficient of the whole numbers X and Y, as its sign and its
\* square; None for NaN, the result for a constant column
pearson(X, Y) ==
    LET n == Len(X)
        cov == n * SumSeq([k \in 1..n |-> X[k] * Y[k]]) - SumSeq(X) * SumSeq(Y)
        vx == n * SumSeq([k \in 1..n |-> X[k] * X[k]]) - SumSeq(X) * SumSeq(X)
        vy == n * SumSeq([k \in 1..n |-> Y[k] * Y[k]]) - SumSeq(Y) * SumSeq(Y)
    IN  IF vx = 0 \/ vy = 0 THEN None
        ELSE Some([sign |-> IF cov > 0 THEN 1 ELSE IF cov < 0 THEN -1 ELSE 0,
                   square |-> <<cov * cov, vx * vy>>])

\* corr_matrix entry of the columns c1 and c2 (DataFrame.corr(): Pearson, over
\* the students that have both subjects): None for NaN, which is also the
\* result when fewer than two students have both
corr_value(p, index, c1, c2) ==
    LET both == Select(index, {k \in 1..Len(index) :
                    ~IsNull(p[index[k]][c1]) /\ ~IsNull(p[index[k]][c2])})
    IN  IF Len(both) < 2 THEN None
        ELSE Let(<<InOneUnit([k \in 1..Len(both) |-> Val(p[both[k]][c1])]),
                   InOneUnit([k \in 1..Len(both) |-> Val(p[both[k]][c2])])>>,
                 LAMBDA XY : pearson(XY[1], XY[2]))

\* abs(corr_value) > num / 10
abs_above(corr, num) == corr.square[1] * 100 > num * num * corr.square[2]

\* a < b for fractions of non-negative numerators, decided by their continued
\* fractions so that no product is formed
RECURSIVE FracBelow(_, _)
FracBelow(a, b) ==
    LET fa == a[1] \div a[2]
        fb == b[1] \div b[2]
        ra == a[1] % a[2]
        rb == b[1] % b[2]
    IN  IF fa # fb THEN fa < fb
        ELSE IF rb = 0 THEN FALSE
        ELSE IF ra = 0 THEN TRUE
        ELSE FracBelow(<<b[2], rb>>, <<a[2], ra>>)

\* every significant pair counted as strong
strength_mut(corr) == "strong"

\* 'strong' if abs(corr_value) > 0.7 else 'moderate' if abs(corr_value) > 0.5
\* else 'weak'
strength(corr) ==
    IF abs_above(corr, 7) THEN "strong"
    ELSE IF abs_above(corr, 5) THEN "moderate" ELSE "weak"

\* the entry of one pair of columns, if abs(corr_value) > 0.3
pair_entry(c1, c2, corr) ==
    IF ~IsNull(corr) /\ abs_above(Val(corr), 3)
    THEN << [subject1 |-> c1, subject2 |-> c2,
             correlation |-> Val(corr), strength |-> strength(Val(corr))] >>
    ELSE <<>>

\* the pairs i < j of columns with abs(corr_value) > 0.3, in the order of the
\* two loops
significant_pairs(p, index, cs) ==
    Concat([i \in 1..Len(cs) |-> Concat([j \in 1..Len(cs) |->
        IF j > i
        THEN Let(corr_value(p, index, cs[i], cs[j]),
                 LAMBDA corr : pair_entry(cs[i], cs[j], corr))
        ELSE <<>>])])

\* the ascending sort
RECURSIVE InsertCorrelation_mut(_, _)
InsertCorrelation_mut(s, e) ==
    IF s = <<>> THEN <<e>>
    ELSE IF FracBelow(e.correlation.square, Head(s).correlation.square)
         THEN <<e>> \o s
    ELSE <<Head(s)>> \o InsertCorrelation_mut(Tail(s), e)

\* correlations.sort(key=lambda x: abs(x['correlation']), reverse=True): the
\* sort is stable, equal keys keep their order
RECURSIVE InsertCorrelation(_, _)
InsertCorrelation(s, e) ==
    IF s = <<>> THEN <<e>>
    ELSE IF FracBelow(Head(s).correlation.square, e.correlation.square)
         THEN <<e>> \o s
    ELSE <<Head(s)>> \o InsertCorrelation(Tail(s), e)

RECURSIVE sort_correlations(_)
sort_correlations(s) ==
    IF s = <<>> THEN <<>>
    ELSE InsertCorrelation(sort_correlations(SubSeq(s, 1, Len(s) - 1)), s[Len(s)])

\* the length of correlations[:10]
TopCorrelations == 10

\* len(pivot_data.columns) > 1 and len(pivot_data) > 5
enough_for_correlation(t) == Len(pivot_columns(t)) > 1 /\ Len(pivot_index(t)) > 5

\* correlations[:10]
top_correlations(sorted) ==
    SubSeq(sorted, 1, IF Len(sorted) < TopCorrelations THEN Len(sorted)
                      ELSE TopCorrelations)

\* results['correlations'] when the try block sets it, as Some(list); None
\* when the key is not set
correlations(t) ==
    IF enough_for_correlation(t)
    THEN Let(<<pivot_table(t), pivot_index(t), pivot_columns(t)>>,
             LAMBDA pv : Some(top_correlations(sort_correlations(
                             significant_pairs(pv[1], pv[2], pv[3])))))
    ELSE None

----------------------------------------------------------------------------
(* analyzer.analyze_performance, step 7: the clusters of students           *)
(* KMeans.fit_predict gives each row of features a label in                 *)
(* 0..n_clusters-1, the nearest centre; rows with equal features get the    *)
(* same label.  Which label is not modelled: every labelling of the         *)
(* distinct feature rows is allowed.  The entry 'cluster_<id>' of the       *)
(* mapping is the entry <id>; avg_grade_std, a square root, is left out.    *)

\* student_stats[student_stats['grade_count'] >= min_records]
qualifying(t, min_records) ==
    LET stats == student_stats(t)
    IN  Select(stats, {k \in 1..Len(stats) : enough_records(stats[k], min_records)})

\* len(student_stats) >= 10
MinClusterStudents == 10

\* the largest n_clusters
MaxClusters == 4

\* min(4, len(student_stats) // 3)
n_clusters(n) == IF n \div 3 < MaxClusters THEN n \div 3 ELSE MaxClusters

\* the row of cluster_features of one student: avg_grade, grade_count and,
\* for grade_std, the sum of squared deviations it is the root of
cluster_features(t, st) ==
    LET g == grades_of(RowsWhere(t, "student_id", st.student_id))
        n == Len(g)
    IN  <<st.avg_grade, st.grade_count,
          n * SumSeq([k \in 1..n |-> g[k] * g[k]]) - SumSeq(g) * SumSeq(g)>>

\* the labellings kmeans.fit_predict can return for the qualifying students
Labellings(t, min_records) ==
    LET q == qualifying(t, min_records)
    IN  IF Len(q) >= MinClusterStudents
        THEN [{cluster_features(t, q[k]) : k \in 1..Len(q)} ->
                 0..(n_clusters(Len(q)) - 1)]
        ELSE {<<>>}

\* the length of student_ids[:10]
MaxListedIds == 10

\* every member listed
listed_mut(ids) == ids

\* cluster_data['student_id'].tolist()[:10]
listed(ids) == SubSeq(ids, 1, IF Len(ids) < MaxListedIds THEN Len(ids) ELSE MaxListedIds)

\* results['clusters'] when the try block sets it, as Some(mapping); None when
\* the key is not set
clusters(t, min_records, label) ==
    LET q == qualifying(t, min_records)
    IN  IF Len(q) >= MinClusterStudents
        THEN Some([cluster_id \in 0..(n_clusters(Len(q)) - 1) |->
                 LET cluster_data == Select(q, {k \in 1..Len(q) :
                         label[cluster_features(t, q[k])] = cluster_id})
                 IN  [student_count |-> Len(cluster_data),
                      avg_grade_mean |-> <<SumSeq(Column(cluster_data, "avg_grade")),
                                           Len(cluster_data)>>,
                      student_ids |-> listed(Column(cluster_data, "student_id"))]])
        ELSE None

----------------------------------------------------------------------------
(* analyzer.analyze_performance as a whole *)

\* the columns every step reads
RequiredColumns == {"student_id", "subject", "grade"}

\* 'week' in df.columns or 'date' in df.columns, before the trends
trend_has_weeks(cols) == "week" \in cols \/ "date" \in cols

\* df after step 5: if 'week' not in df.columns: df['week'] = ..., an
\* assignment to the table the caller passed
with_week(t, cols) ==
    IF trend_has_weeks(cols) /\ "week" \notin cols THEN assign_week(t) ELSE t

with_week_columns(cols) ==
    IF trend_has_weeks(cols) THEN cols \cup {"week"} ELSE cols

\* 'improving' if slope > 0.05 else 'declining' if slope < -0.05 else 'stable'
direction(slope) ==
    IF 20 * slope[1] > slope[2] * GradeScale THEN "improving"
    ELSE IF 20 * slope[1] < -(slope[2] * GradeScale) THEN "declining"
    ELSE "stable"

\* slope * n + intercept, slope and intercept over one denominator
next_week(fit, n) == <<fit[1][1] * n + fit[2][1], fit[1][2]>>

\* results['trends']: empty without weeks, else the weekly means and, over
\* more than one week, the line fitted to them
trends(t, cols) ==
    IF ~trend_has_weeks(cols) THEN <<>>
    ELSE LET tw == with_week(t, cols)
             y == weekly_grades(tw)
             fit == polyfit(arange(Len(y)), y)
             weekly == [weeks |-> weekly_index(tw),
                        mean_grades |-> [k \in 1..Len(y) |-> round2(y[k])]]
         IN  IF Len(y) > 1
             THEN [weekly |-> weekly,
                   overall_trend |-> [slope |-> fit[1], intercept |-> fit[2],
                                      direction |-> direction(fit[1]),
                                      prediction_next_week |-> next_week(fit, Len(y))]]
             ELSE [weekly |-> weekly]

\* the mapping analyze_performance returns.  The keys correlations and
\* clusters are set only inside their try blocks; corr_error says that the
\* correlation block ended in its except clause.  timestamp is the reading
\* now of the clock at the call.
analyze_performance(t, cols, risk_threshold, min_records, label, corr_error, now) ==
    LET base == [overall |-> overall(t, cols),
                 by_subject |-> by_subject(t),
                 by_group |-> by_group(t, cols),
                 risk_students |-> analyze_risk_students(t, cols, risk_threshold, min_records),
                 trends |-> trends(t, cols),
                 timestamp |-> now]
        corr == correlations(t)
        clus == clusters(t, min_records, label)
        with_corr == IF corr_error THEN base @@ ("correlations" :> "error")
                     ELSE IF IsNull(corr) THEN base
                     ELSE base @@ ("correlations" :> Val(corr))
    IN  IF IsNull(clus) THEN with_corr ELSE with_corr @@ ("clusters" :> Val(clus))

\* Whether pivot_table accepts a table without rows depends on the pandas at
\* hand: the except clause may or may not be reached.
CorrErrors(t) == IF t = <<>> THEN {TRUE, FALSE} ELSE {FALSE}

\* longest table handed to analyze_performance
MaxAnalyzeRows == 3

\* grades of the analysed tables: 3.0, 3.99, 4.0, 9.0
AnalyzeGrades == {G(3), G(4) - 2, G(4), G(9)}

\* student 1 has two subjects, student 2 one
AnalyzeRows ==
    {r \in [student_id : 1..2, subject : 1..2, grade : AnalyzeGrades] :
        r.student_id = 2 => r.subject = 1}

\* Correlation tables: CorrStudents students and up to MaxCorrSubjects
\* subjects, one grade per student and subject.
CorrStudents == 6

MaxCorrSubjects == 6

\* the grades of the students 1, 2, ... in a subject of each profile
Profiles ==
    << <<2, 3, 4, 5, 6, 7, 8, 9>>,
       <<4, 1, 2, 10, 5, 9, 6, 3>>,
       <<10, 10, 5, 10, 1, 8, 6, 9>>,
       <<5, 5, 5, 5, 5, 5, 5, 5>> >>

\* the table with the subjects 1..Len(ps), subject c of profile ps[c], student
\* after student; with gap, the last student has no record of subject 1
CorrTable(ps, gap) ==
    LET m == Len(ps)
        full == [k \in 1..(CorrStudents * m) |->
                    LET st == ((k - 1) \div m) + 1
                        c == ((k - 1) % m) + 1
                    IN  [student_id |-> st, subject |-> c,
                         grade |-> G(Profiles[ps[c]][st])]]
    IN  Select(full, {k \in 1..Len(full) :
            ~(gap /\ full[k].student_id = CorrStudents /\ full[k].subject = 1)})

\* the profiles of the subjects 1, 2, ...: never descending, or never
\* ascending
ProfileLists ==
    {ps \in TablesOf(1..Len(Profiles), MaxCorrSubjects) \ {<<>>} :
        \/ \A k \in 1..(Len(ps) - 1) : ps[k] <= ps[k + 1]
        \/ \A k \in 1..(Len(ps) - 1) : ps[k] >= ps[k + 1]}

CorrTables == {CorrTable(ps, gap) : ps \in ProfileLists, gap \in BOOLEAN}

\* Cluster tables: the students 1..n with one subject; the first `few` of
\* them have one record, the others two; student 1 has higher grades than
\* the others, who are all alike.
MaxClusterStudents == 12

ClusterTable(n, few) ==
    Concat([st \in 1..n |->
        [k \in 1..(IF st <= few THEN 1 ELSE 2) |->
            [student_id |-> st, subject |-> 1,
             grade |-> G((IF st = 1 THEN 7 ELSE 3) + k)]]])

ClusterTables ==
    {ClusterTable(n, few) : n \in (MinClusterStudents - 1)..MaxClusterStudents,
                            few \in 0..2}

DefaultAnalyzeArgs == [risk_threshold |-> G(5), min_records |-> 3]

AnalyzeInit ==
    /\ pc = "analyze_performance"
    /\ \/ /\ columns = RequiredColumns
          /\ df \in TablesOf(AnalyzeRows, MaxAnalyzeRows)
          /\ args \in [risk_threshold : {G(4), G(5)}, min_records : 1..3]
       \/ /\ columns = {}
          /\ df = <<>>
          /\ args = DefaultAnalyzeArgs
       \/ /\ columns = RequiredColumns
          /\ df \in CorrTables
          /\ args = DefaultAnalyzeArgs
       \/ /\ columns = RequiredColumns
          /\ df \in ClusterTables
          /\ args \in [risk_threshold : {G(5)}, min_records : 1..3]
    /\ df_clean = <<>>
    /\ risk_students = <<>>
    /\ risk_df = <<>>
    /\ predictions = <<>>
    /\ recommendations = <<>>
    /\ results = <<>>
    /\ subject_stats = <<>>
    /\ report = <<>>
    /\ raised = None
    /\ clock = 0
    /\ library = <<>>
    /\ files = NoFiles
    /\ exit_code = None

\* df['student_id'] (line 47) raises KeyError for a table without that
\* column, after the clock was read (line 42); no other statement raises
\* outside a try block.  Step 5 writes the week column into df itself.
AnalyzePerformance ==
    /\ pc = "analyze_performance"
    /\ clock' = clock + 1
    /\ IF RequiredColumns \subseteq columns
       THEN \E label \in Labellings(df, args.min_records), corr_error \in CorrErrors(df) :
                /\ results' = analyze_performance(df, columns, args.risk_threshold,
                                                  args.min_records, label, corr_error,
                                                  clock)
                /\ risk_students' = results'.risk_students
                /\ df' = with_week(df, columns)
                /\ columns' = with_week_columns(columns)
                /\ library' = [kmeans |-> label, pivot_raises |-> corr_error]
                /\ raised' = None
                /\ pc' = "analyzed"
       ELSE /\ raised' = Some("KeyError")
            /\ pc' = "failed"
            /\ UNCHANGED <<results, risk_students, df, columns, library>>
    /\ UNCHANGED <<args, df_clean, risk_df, predictions, recommendations,
                 subject_stats, report, files, exit_code>>

AnalyzeNext == AnalyzePerformance

SpecAnalyze == AnalyzeInit /\ [][AnalyzeNext]_vars

\* the students of the table in df
Students == {df[i].student_id : i \in 1..Len(df)}

\* the exact mean grade of student s over the table in df
StudentMean(s) == mean_grade(RowsWhere(df, "student_id", s))

\* C3: a student is in risk_students if and only if the student has at least
\* min_records grade records and a mean grade strictly below risk_threshold.
C3_RiskIffBelowThreshold ==
    pc = "analyzed" =>
        \A s \in Students :
            (\E k \in 1..Len(risk_students) : risk_students[k].student_id = s)
            <=> /\ StudentMean(s)[2] >= args.min_records
                /\ FracLT(StudentMean(s), <<args.risk_threshold, 1>>)

\* C4: an entry of risk_students has risk_level 'high' exactly when the
\* student's mean grade is below 4.0, and 'medium' otherwise.
C4_RiskLevelByMean ==
    pc = "analyzed" =>
        \A k \in 1..Len(risk_students) :
            LET e == risk_students[k] IN
            /\ e.risk_level \in {"high", "medium"}
            /\ e.risk_level = "high" <=> FracLT(StudentMean(e.student_id), <<G(4), 1>>)

----------------------------------------------------------------------------
(* analyzer.identify_at_risk_students                                       *)
(* A risk factor is the tuple <<prefix, numbers...>> of the text the source *)
(* formats: the prefix names the kind of factor, the numbers are the        *)
(* formatted values.  The digits of the standard deviation are not          *)
(* modelled (a square root), only the test grade_std > 2.5.                 *)

\* np.mean of a slice of weekly means: the mean of the means, as a fraction
mean_of(y) == <<SumSeq(Scaled(y)), CommonDen(y) * Len(y)>>

\* the cut one week late
half_index_mut(n) == (n \div 2) + 1

\* the index len(y) // 2 at which the weekly means are cut in two
half_index(n) == n \div 2

\* y[:len(y) // 2] and y[len(y) // 2:]
first_half(y) == SubSeq(y, 1, half_index(Len(y)))
second_half(y) == SubSeq(y, half_index(Len(y)) + 1, Len(y))

\* avg_grade < threshold
low_average(avg, threshold) == FracLT(avg, <<threshold, 1>>)

\* grade_std > 2.5 for the sample standard deviation (ddof = 1) of the grades;
\* with one grade the deviation is NaN and the test is false:
\*   (n * sum(g^2) - sum(g)^2) / (n * (n - 1)) > 2.5^2
high_variability(rows) ==
    LET n == Len(rows)
        g == Column(rows, "grade")
        S == SumSeq(g)
        SS == SumSeq([k \in 1..n |-> g[k] * g[k]])
    IN  n > 1 /\ 4 * (n * SS - S * S) > 25 * n * (n - 1) * GradeScale * GradeScale

\* the trend test with the sign of the slope reversed
declining_mut(slope) == 5 * slope[1] > slope[2] * GradeScale

\* slope < -0.2, the slope in grade units per week
declining(slope) == 5 * slope[1] < -(slope[2] * GradeScale)

\* first_half - second_half > decline_threshold; an empty half has mean NaN
\* and the test is false
sharp_drop(y, decline_threshold) ==
    LET a == mean_of(first_half(y))
        b == mean_of(second_half(y))
    IN  /\ first_half(y) # <<>> /\ second_half(y) # <<>>
        /\ a[1] * b[2] - b[1] * a[2] > decline_threshold * a[2] * b[2]

\* student_data['attendance'].mean() < 0.7
low_attendance(rows) == 10 * SumSeq(Column(rows, "attendance")) < 7 * FullAttendance * Len(rows)

\* format of a fraction of grade units with d decimals, as the integer number
\* of 10^-d grade points
Fmt(f, d) == RoundHalfEven(f[1] * (10 ^ d), f[2] * GradeScale)

\* the risk_factors list of one student, in the order the source appends
risk_factors_of(rows, cols, threshold, min_weeks, decline_threshold) ==
    LET avg == mean_grade(rows)
        y == weekly_grades(rows)
        slope == polyfit(arange(Len(y)), y)[1]
        trend == "week" \in cols /\ nunique(rows, "week") >= min_weeks
                 /\ Len(y) >= min_weeks
    IN  (IF low_average(avg, threshold)
         THEN << <<"low average", Fmt(avg, 2)>> >> ELSE <<>>)
        \o (IF high_variability(rows)
            THEN << <<"high variability">> >> ELSE <<>>)
        \o (IF trend /\ declining(slope)
            THEN << <<"declining trend", Fmt(slope, 2)>> >> ELSE <<>>)
        \o (IF trend /\ sharp_drop(y, decline_threshold)
            THEN << <<"sharp drop", Fmt(mean_of(first_half(y)), 1),
                     Fmt(mean_of(second_half(y)), 1)>> >> ELSE <<>>)
        \o (IF "attendance" \in cols /\ low_attendance(rows)
            THEN << <<"low attendance",
                     RoundHalfEven(SumSeq(Column(rows, "attendance")) * 1000,
                                   FullAttendance * Len(rows))>> >> ELSE <<>>)

\* recommendations_map: the three recommendations of each kind of factor, the
\* j-th one of a kind written <<kind, j>>
recommendations_map ==
    [key \in {"low average", "high variability", "declining trend", "sharp drop",
              "low attendance"} |-> [j \in 1..3 |-> <<key, j>>]]

\* the keys of recommendations_map in the order of the dict literal
KeyOrder ==
    <<"low average", "high variability", "declining trend", "sharp drop",
      "low attendance">>

\* key in factor.  A factor text written by identify_at_risk_students starts
\* with one key and contains no other; any other text is <<"text", S>> with S
\* the set of the keys that occur in it.
contains_key(factor, key) ==
    IF factor[1] = "text" THEN key \in factor[2] ELSE factor[1] = key

\* the lists of the contained keys in the reverse order of the keys
matched_mut(factor) ==
    Concat([k \in 1..Len(KeyOrder) |->
               IF contains_key(factor, KeyOrder[Len(KeyOrder) + 1 - k])
               THEN recommendations_map[KeyOrder[Len(KeyOrder) + 1 - k]] ELSE <<>>])

\* the recommendation lists of the keys contained in one factor text, in the
\* order of the keys
matched(factor) ==
    Concat([k \in 1..Len(KeyOrder) |->
               IF contains_key(factor, KeyOrder[k])
               THEN recommendations_map[KeyOrder[k]] ELSE <<>>])

\* the matched lists concatenated and cut to five, repetitions kept
generate_recommendations_mut(risk_factors) ==
    LET all == Concat([k \in 1..Len(risk_factors) |-> matched(risk_factors[k])])
    IN  SubSeq(all, 1, IF Len(all) < 5 THEN Len(all) ELSE 5)

\* generate_recommendations: the matched lists concatenated in factor order,
\* without repetitions, cut to five
generate_recommendations(risk_factors) ==
    LET all == Concat([k \in 1..Len(risk_factors) |-> matched(risk_factors[k])])
        uniq == unique(all)
    IN  SubSeq(uniq, 1, IF Len(uniq) < 5 THEN Len(uniq) ELSE 5)

\* the order with both keys descending
sorts_before_mut(a, b) ==
    \/ a.risk_score > b.risk_score
    \/ a.risk_score = b.risk_score /\ FracLT(b.avg_grade, a.avg_grade)

\* the order of sort_values(['risk_score', 'avg_grade'],
\* ascending=[False, True]): a comes strictly before b
sorts_before(a, b) ==
    \/ a.risk_score > b.risk_score
    \/ a.risk_score = b.risk_score /\ FracLT(a.avg_grade, b.avg_grade)

RECURSIVE InsertRow(_, _)
InsertRow(s, r) ==
    IF s = <<>> THEN <<r>>
    ELSE IF sorts_before(r, Head(s)) THEN <<r>> \o s
    ELSE <<Head(s)>> \o InsertRow(Tail(s), r)

\* DataFrame.sort_values on the two keys; rows equal in both keep their order
RECURSIVE sort_values(_)
sort_values(s) ==
    IF s = <<>> THEN <<>>
    ELSE InsertRow(sort_values(SubSeq(s, 1, Len(s) - 1)), s[Len(s)])

\* the student_info of one student
student_info(rows, cols, threshold, min_weeks, decline_threshold) ==
    LET fs == risk_factors_of(rows, cols, threshold, min_weeks, decline_threshold)
    IN  [student_id |-> rows[1].student_id,
         avg_grade |-> mean_grade(rows),
         subject_count |-> nunique(rows, "subject"),
         total_grades |-> Len(rows),
         risk_factors |-> fs,
         risk_score |-> Len(fs),
         recommendations |-> generate_recommendations(fs)]

\* every student appended, with or without factors
is_at_risk_mut(info) == info.risk_score >= 0

\* if risk_factors: results.append(student_info)
is_at_risk(info) == info.risk_factors # <<>>

\* df_copy = df.copy() with the week column it gets from the date when df
\* has none
copy_with_week(t, cols) ==
    IF "week" \notin cols /\ "date" \in cols THEN assign_week(t) ELSE t

\* identify_at_risk_students(df, threshold, min_weeks, decline_threshold)
identify_at_risk_students(t, cols, threshold, min_weeks, decline_threshold) ==
    LET df_copy == copy_with_week(t, cols)
        copy_cols == IF "date" \in cols THEN cols \cup {"week"} ELSE cols
        ids == unique(Column(df_copy, "student_id"))
        infos == [k \in 1..Len(ids) |->
                    student_info(RowsWhere(df_copy, "student_id", ids[k]), copy_cols,
                                 threshold, min_weeks, decline_threshold)]
        at_risk == Select(infos, {k \in 1..Len(infos) : is_at_risk(infos[k])})
    IN  sort_values(at_risk)

\* the default arguments: threshold 5.0, min_weeks 3, decline_threshold 1.5
DefaultThreshold == G(5)
DefaultMinWeeks == 3
DefaultDecline == (3 * GradeScale) \div 2

\* longest weekly series of one student
MaxWeeks == 6
\* longest table of freely chosen rows
MaxFreeRows == 2

\* Weekly tables: every student has one grade per week for the weeks
\* 1..Len(series), the rows in week order and within a week in student order,
\* as generate_sample_data lays them out.
WeeklySeries == UNION {[1..n -> {G(4), G(8)}] : n \in 1..MaxWeeks}

WeeklyTable(series, att) ==
    LET k == Len(series)
        cell == [r \in 1..(MaxWeeks * k) |->
                    [w |-> ((r - 1) \div k) + 1, s |-> ((r - 1) % k) + 1]]
        used == Select(cell, {r \in 1..Len(cell) : cell[r].w <= Len(series[cell[r].s])})
    IN  [r \in 1..Len(used) |->
            LET base == [student_id |-> used[r].s, subject |-> 1,
                         grade |-> series[used[r].s][used[r].w],
                         week |-> used[r].w]
            IN  IF att = <<>> THEN base
                ELSE [student_id |-> base.student_id, subject |-> base.subject,
                      grade |-> base.grade, week |-> base.week,
                      attendance |-> att[used[r].s]]]

FreeGrades == {G(2), G(9)}
FreeRowsPlain == [student_id : 1..2, subject : 1..2, grade : FreeGrades]
FreeRowsWeek == [student_id : 1..2, subject : {1}, grade : FreeGrades, week : 1..2]
FreeRowsAtt ==
    [student_id : 1..2, subject : {1}, grade : FreeGrades, week : 1..2,
     attendance : {50, 100}]

BaseColumns == {"student_id", "subject", "grade"}

RiskInit ==
    /\ pc = "identify_at_risk_students"
    /\ \/ /\ columns = BaseColumns \cup {"week"}
          /\ \E series \in [1..1 -> WeeklySeries]
                    \cup {ss \in [1..2 -> WeeklySeries] : Len(ss[2]) <= 2} :
                df = WeeklyTable(series, <<>>)
          /\ args = [threshold |-> DefaultThreshold, min_weeks |-> DefaultMinWeeks,
                     decline_threshold |-> DefaultDecline]
       \/ /\ columns = BaseColumns \cup {"week", "attendance"}
          /\ \E series \in [1..2 -> {w \in WeeklySeries : Len(w) <= 3}] :
                \E att \in [1..2 -> {50, 100}] : df = WeeklyTable(series, att)
          /\ args = [threshold |-> DefaultThreshold, min_weeks |-> DefaultMinWeeks,
                     decline_threshold |-> DefaultDecline]
       \/ /\ \/ columns = BaseColumns /\ df \in TablesOf(FreeRowsPlain, MaxFreeRows)
             \/ columns = BaseColumns \cup {"week"}
                /\ df \in TablesOf(FreeRowsWeek, MaxFreeRows)
             \/ columns = BaseColumns \cup {"week", "attendance"}
                /\ df \in TablesOf(FreeRowsAtt, MaxFreeRows)
          /\ args \in [threshold : {G(3), DefaultThreshold}, min_weeks : {2, 3},
                       decline_threshold : {DefaultDecline}]
    /\ df_clean = <<>>
    /\ risk_students = <<>>
    /\ risk_df = <<>>
    /\ predictions = <<>>
    /\ recommendations = <<>>
    /\ results = <<>>
    /\ subject_stats = <<>>
    /\ report = <<>>
    /\ raised = None
    /\ clock = 0
    /\ library = <<>>
    /\ files = NoFiles
    /\ exit_code = None

IdentifyAtRiskStudents ==
    /\ pc = "identify_at_risk_students"
    /\ risk_df' = identify_at_risk_students(df, columns, args.threshold,
                                            args.min_weeks, args.decline_threshold)
    /\ pc' = "identified"
    /\ UNCHANGED <<df, columns, args, df_clean, risk_students, predictions,
                 recommendations, results, subject_stats, report, raised,
                 clock, library,
                 files, exit_code>>

RiskNext == IdentifyAtRiskStudents

SpecRisk == RiskInit /\ [][RiskNext]_vars

----------------------------------------------------------------------------
(* Claims about identify_at_risk_students *)

\* the rows of student s in the table in df
RowsOf(s) == RowsWhere(df, "student_id", s)

\* the rows of risk_df that are about student s
RiskRowsOf(s) == {k \in 1..Len(risk_df) : risk_df[k].student_id = s}

\* student s triggers at least one of the five risk predicates
TriggersFactor(s) ==
    LET rows == RowsOf(s)
        fitted == "week" \in columns /\ nunique(rows, "week") >= args.min_weeks
    IN  \/ low_average(mean_grade(rows), args.threshold)
        \/ high_variability(rows)
        \/ fitted /\ declining(polyfit(arange(Len(weekly_grades(rows))),
                                       weekly_grades(rows))[1])
        \/ fitted /\ sharp_drop(weekly_grades(rows), args.decline_threshold)
        \/ "attendance" \in columns /\ low_attendance(rows)

C6_SortedByScoreThenGrade ==
    pc = "identified" =>
        \A k \in 1..(Len(risk_df) - 1) :
            /\ risk_df[k].risk_score >= risk_df[k + 1].risk_score
            /\ risk_df[k].risk_score = risk_df[k + 1].risk_score
                  => FracLE(risk_df[k].avg_grade, risk_df[k + 1].avg_grade)

\* two returned students with the same risk_score, the one that comes first in
\* the table having the higher avg_grade: the sort has exchanged them
C6_Witness ==
    /\ pc = "identified"
    /\ Len(risk_df) = 2
    /\ risk_df[1].student_id = 2 /\ risk_df[2].student_id = 1
    /\ df[1].student_id = 1
    /\ risk_df[1].risk_score = risk_df[2].risk_score
    /\ FracLT(risk_df[1].avg_grade, risk_df[2].avg_grade)

\* C7: with the default threshold every returned student has avg_grade
\* strictly below 5.0.
C7_ReturnedBelowFive ==
    pc = "identified" /\ args.threshold = DefaultThreshold =>
        \A k \in 1..Len(risk_df) : FracLT(risk_df[k].avg_grade, <<G(5), 1>>)

\* the weekly means 8, 8, 8, 8, 4, 4, one grade in each week
ScenarioMeans ==
    << <<G(8), 1>>, <<G(8), 1>>, <<G(8), 1>>, <<G(8), 1>>, <<G(4), 1>>, <<G(4), 1>> >>

HasScenario(s) == "week" \in columns /\ weekly_grades(RowsOf(s)) = ScenarioMeans

DefaultArgs ==
    args = [threshold |-> DefaultThreshold, min_weeks |-> DefaultMinWeeks,
            decline_threshold |-> DefaultDecline]

\* the risk factors returned for student s
FactorsOf(s) ==
    UNION {{risk_df[k].risk_factors[j] : j \in 1..Len(risk_df[k].risk_factors)} :
             k \in RiskRowsOf(s)}

\* factor f is among the risk_factors of the row of student s
HasFactor(s, f) == f \in FactorsOf(s)

\* the weekly means of student s in week order cut at floor(n / 2), the
\* middle week of an odd n in the second half: the first mean exceeds the
\* second by more than decline_threshold
DropsBetweenHalves(s) ==
    LET y == weekly_grades(RowsOf(s))
        h == Len(y) \div 2
        a == mean_of(SubSeq(y, 1, h))
        b == mean_of(SubSeq(y, h + 1, Len(y)))
    IN  /\ h >= 1
        /\ a[1] * b[2] - b[1] * a[2] > args.decline_threshold * a[2] * b[2]

\* C27: for every student of a table with a week column the sharp-drop
\* factor is among the returned factors if and only if the mean of the first
\* floor(n/2) weekly means minus the mean of the remaining ones exceeds
\* decline_threshold, for every number n of distinct weeks, also below
\* min_weeks.
C27_SharpDropIffHalvesDrop ==
    pc = "identified" /\ "week" \in columns =>
        \A s \in Students :
            (\E f \in FactorsOf(s) : f[1] = "sharp drop") <=> DropsBetweenHalves(s)

C9_HalvesEightAndSix ==
    pc = "identified" /\ DefaultArgs =>
        \A s \in Students : HasScenario(s) =>
            /\ HasFactor(s, <<"sharp drop", 80, 60>>)
            /\ FracEq(mean_of(first_half(weekly_grades(RowsOf(s)))), <<G(8), 1>>)
            /\ FracEq(mean_of(second_half(weekly_grades(RowsOf(s)))), <<G(6), 1>>)

\* C9 as amended: for the weekly means 8, 8, 8, 8, 4, 4 the sharp-drop check
\* compares the mean 8.0 of the first three weeks with the mean 16/3 (shown
\* as 5.3) of the last three weeks.
C9_HalvesEightAndSixteenThirds ==
    pc = "identified" /\ DefaultArgs =>
        \A s \in Students : HasScenario(s) =>
            /\ HasFactor(s, <<"sharp drop", 80, 53>>)
            /\ FracEq(mean_of(first_half(weekly_grades(RowsOf(s)))), <<G(8), 1>>)
            /\ FracEq(mean_of(second_half(weekly_grades(RowsOf(s)))), <<G(16), 3>>)

C9_Witness ==
    /\ pc = "identified" /\ DefaultArgs
    /\ \E s \in Students :
          HasScenario(s) /\ \E f \in FactorsOf(s) : f[1] = "sharp drop"

----------------------------------------------------------------------------
(* analyzer.predict_final_grades *)

\* the week the forecast is made for: the end of the semester
FinalWeek == 16

\* the current_week used when none is given and the table has no week column
FallbackWeek == 10

\* current_week when the argument is None: df['week'].max(), else 10
default_week(t, cols) ==
    IF "week" \in cols
    THEN CHOOSE w \in {t[i].week : i \in 1..Len(t)} :
            \A i \in 1..Len(t) : t[i].week <= w
    ELSE FallbackWeek

\* slope * 16 + intercept, slope and intercept over the same denominator
extrapolate(fit) == <<fit[1][1] * FinalWeek + fit[2][1], fit[1][2]>>

\* the clamp without its upper limit
clamp_mut(f) == IF FracLT(<<G(1), 1>>, f) THEN f ELSE <<G(1), 1>>

\* max(1, min(10, final_grade_pred)), in grade units
clamp(f) ==
    LET lo == IF FracLT(f, <<G(10), 1>>) THEN f ELSE <<G(10), 1>>
    IN  IF FracLT(<<G(1), 1>>, lo) THEN lo ELSE <<G(1), 1>>

\* min(1.0, len(weekly_grades) / current_week)
confidence(n, current_week) ==
    IF FracLT(<<n, current_week>>, <<1, 1>>) THEN <<n, current_week>> ELSE <<1, 1>>

\* 'improving' if slope > 0.05 else 'declining' if slope < -0.05 else 'stable'
trend_of(slope) ==
    IF 20 * slope[1] > slope[2] * GradeScale THEN "improving"
    ELSE IF 20 * slope[1] < -(slope[2] * GradeScale) THEN "declining"
    ELSE "stable"

\* the prediction of one (student, subject) pair with at least two weeks
prediction(rows, current_week) ==
    LET y == weekly_grades(rows)
        fit == polyfit(weekly_index(rows), y)
    IN  [student_id |-> rows[1].student_id,
         subject |-> rows[1].subject,
         current_week |-> current_week,
         weeks_available |-> Len(y),
         current_avg_grade |-> mean_of(y),
         predicted_final_grade |-> clamp(extrapolate(fit)),
         prediction_confidence |-> confidence(Len(y), current_week),
         trend |-> trend_of(fit[1]),
         trend_slope |-> fit[1]]

\* len(weekly_grades) >= 2, for a table with a week column
enough_weeks_mut(rows, cols) == "week" \in cols /\ nunique(rows, "week") >= 1

enough_weeks(rows, cols) == "week" \in cols /\ nunique(rows, "week") >= 2

\* the order of sort_values(['student_id', 'subject']): a strictly before b
pair_before(a, b) ==
    \/ a.student_id < b.student_id
    \/ a.student_id = b.student_id /\ a.subject < b.subject

RECURSIVE InsertPrediction(_, _)
InsertPrediction(s, r) ==
    IF s = <<>> THEN <<r>>
    ELSE IF pair_before(r, Head(s)) THEN <<r>> \o s
    ELSE <<Head(s)>> \o InsertPrediction(Tail(s), r)

RECURSIVE sort_predictions(_)
sort_predictions(s) ==
    IF s = <<>> THEN <<>>
    ELSE InsertPrediction(sort_predictions(SubSeq(s, 1, Len(s) - 1)), s[Len(s)])

\* predict_final_grades(df, current_week); current_week is None or Some(n)
predict_final_grades(t, cols, current_week) ==
    LET cw == IF IsNull(current_week) THEN default_week(t, cols) ELSE Val(current_week)
        ids == unique(Column(t, "student_id"))
        of_student(s) ==
            LET sd == RowsWhere(t, "student_id", s)
                subjects == unique(Column(sd, "subject"))
                fitted == Select(subjects, {k \in 1..Len(subjects) :
                            enough_weeks(RowsWhere(sd, "subject", subjects[k]), cols)})
            IN  [k \in 1..Len(fitted) |->
                    prediction(RowsWhere(sd, "subject", fitted[k]), cw)]
    IN  sort_predictions(Concat([k \in 1..Len(ids) |-> of_student(ids[k])]))

\* longest table handed to predict_final_grades
MaxPredictRows == 3

\* longest weekly series of one (student, subject) pair in a pair table
MaxPairWeeks == 2

\* student 1 has two subjects, student 2 one; grades 1.0 and 10.0
PredictRows ==
    {r \in [student_id : 1..2, subject : 1..2, grade : {G(1), G(10)}, week : 1..3] :
        r.student_id = 2 => r.subject = 1}

\* Pair tables: the records of three (student, subject) pairs, pair after
\* pair in any order of the pairs, each pair with one record per week for
\* the first 0..MaxPairWeeks weeks.
Pairs == {<<1, 1>>, <<1, 2>>, <<2, 1>>}

PairOrders == {o \in [1..3 -> Pairs] : \A a, b \in 1..3 : o[a] = o[b] => a = b}

PairSeries(p, n) ==
    [w \in 1..n |-> [student_id |-> p[1], subject |-> p[2],
                     grade |-> G(3 + w + p[2]), week |-> w]]

PairTable(o, n) == Concat([k \in 1..3 |-> PairSeries(o[k], n[k])])

PairTables ==
    {PairTable(o, n) : o \in PairOrders, n \in [1..3 -> 0..MaxPairWeeks]}

\* Two-week tables: one pair with the grade 6.0 in week 1 or 13 and a grade
\* from 5.0 to 7.0 one or two weeks later, in either row order
TwoWeekTables ==
    {<<[student_id |-> 1, subject |-> 1, grade |-> G(6), week |-> w],
       [student_id |-> 1, subject |-> 1, grade |-> G(6) + d, week |-> w + gap]>> :
        w \in {1, 13}, gap \in 1..2, d \in {-GradeScale, -16, 0, 16, GradeScale}}
    \cup
    {<<[student_id |-> 1, subject |-> 1, grade |-> G(6) + d, week |-> w + gap],
       [student_id |-> 1, subject |-> 1, grade |-> G(6), week |-> w]>> :
        w \in {1, 13}, gap \in 1..2, d \in {-GradeScale, -16, 0, 16, GradeScale}}

PredictInit ==
    /\ pc = "predict_final_grades"
    /\ \/ /\ columns = BaseColumns \cup {"week"}
          /\ df \in (TablesOf(PredictRows, MaxPredictRows) \cup PairTables
                        \cup TwoWeekTables) \ {<<>>}
       \/ /\ columns = BaseColumns
          /\ df \in TablesOf(FreeRowsPlain, 1) \ {<<>>}
    /\ args \in [current_week : {None, Some(1), Some(8)}]
    /\ df_clean = <<>>
    /\ risk_students = <<>>
    /\ risk_df = <<>>
    /\ predictions = <<>>
    /\ recommendations = <<>>
    /\ results = <<>>
    /\ subject_stats = <<>>
    /\ report = <<>>
    /\ raised = None
    /\ clock = 0
    /\ library = <<>>
    /\ files = NoFiles
    /\ exit_code = None

\* No statement of predict_final_grades raises for a table of known grades
\* and a current week from 1 on (line 489 divides by current_week).
PredictFinalGrades ==
    /\ pc = "predict_final_grades"
    /\ predictions' = predict_final_grades(df, columns, args.current_week)
    /\ raised' = None
    /\ pc' = "predicted"
    /\ UNCHANGED <<df, columns, args, df_clean, risk_students, risk_df,
                 recommendations, results, subject_stats, report, clock, library,
                 files, exit_code>>

PredictNext == PredictFinalGrades

SpecPredict == PredictInit /\ [][PredictNext]_vars

\* C10: every row returned by predict_final_grades has
\* 1 <= predicted_final_grade <= 10, and prediction_confidence equal to
\* min(1.0, weeks_available / current_week), which lies in (0, 1].
C10_ClampedAndConfident ==
    pc = "predicted" =>
        \A k \in 1..Len(predictions) :
            LET r == predictions[k]
                ratio == <<r.weeks_available, r.current_week>>
            IN  /\ r.current_week >= 1
                /\ FracLE(<<G(1), 1>>, r.predicted_final_grade)
                /\ FracLE(r.predicted_final_grade, <<G(10), 1>>)
                /\ FracEq(r.prediction_confidence,
                          IF r.weeks_available >= r.current_week THEN <<1, 1>> ELSE ratio)
                /\ FracLT(<<0, 1>>, r.prediction_confidence)
                /\ FracLE(r.prediction_confidence, <<1, 1>>)
                /\ IsNull(args.current_week) \/ r.current_week = Val(args.current_week)

\* a pair rising over three weeks whose line passes 10 before week 16 and is
\* cut to 10, with a confidence below 1
C10_Witness ==
    /\ pc = "predicted"
    /\ \E k \in 1..Len(predictions) :
          /\ predictions[k].weeks_available = 3
          /\ predictions[k].trend = "improving"
          /\ predictions[k].predicted_final_grade = <<G(10), 1>>
          /\ FracLT(predictions[k].current_avg_grade, <<G(10), 1>>)
          /\ FracLT(predictions[k].prediction_confidence, <<1, 1>>)

\* the (student, subject) pairs of the table and the predictions of one pair
PairsOf(t) == {<<t[k].student_id, t[k].subject>> : k \in 1..Len(t)}

WeeksOfPair(t, p) ==
    {t[k].week : k \in {i \in 1..Len(t) : t[i].student_id = p[1] /\ t[i].subject = p[2]}}

PredictionsOf(p) ==
    {k \in 1..Len(predictions) :
        predictions[k].student_id = p[1] /\ predictions[k].subject = p[2]}

\* C11: predict_final_grades returns, without raising, exactly one row for
\* each (student, subject) pair with grades in at least 2 distinct weeks and
\* no row for a pair with fewer; the rows are in ascending order of
\* (student_id, subject).
C11_OneRowPerFittedPairSorted ==
    pc = "predicted" =>
        /\ raised = None
        /\ \A p \in PairsOf(df) :
              Cardinality(PredictionsOf(p)) =
                  IF "week" \in columns /\ Cardinality(WeeksOfPair(df, p)) >= 2
                  THEN 1 ELSE 0
        /\ \A k \in 1..Len(predictions) :
              <<predictions[k].student_id, predictions[k].subject>> \in PairsOf(df)
        /\ \A k \in 1..(Len(predictions) - 1) :
              \/ predictions[k].student_id < predictions[k + 1].student_id
              \/ /\ predictions[k].student_id = predictions[k + 1].student_id
                 /\ predictions[k].subject < predictions[k + 1].subject

\* student 2 comes first in the table and student 1's subject 2 before
\* subject 1; the pair (1, 2) has one week only and is skipped, the other two
\* are returned with student 1 first
C11_Witness ==
    /\ pc = "predicted"
    /\ Len(df) >= 5
    /\ df[1].student_id = 2
    /\ Cardinality(WeeksOfPair(df, <<1, 2>>)) = 1
    /\ Len(predictions) = 2
    /\ predictions[1].student_id = 1
    /\ predictions[2].student_id = 2

\* the grades of pair p in week w: their sum and their number
WeekSum(p, w) ==
    SumSeq(Column(Select(df, {i \in 1..Len(df) : /\ df[i].student_id = p[1]
                                                  /\ df[i].subject = p[2]
                                                  /\ df[i].week = w}), "grade"))

WeekCount(p, w) ==
    Cardinality({i \in 1..Len(df) : /\ df[i].student_id = p[1]
                                    /\ df[i].subject = p[2]
                                    /\ df[i].week = w})

\* prediction row r is what the line through (w1, g1) and (w2, g2) gives:
\* slope (g2 - g1) / (w2 - w1), final grade g1 + (g2 - g1)(16 - w1)/(w2 - w1)
\* cut to [1, 10], and the trend by the slope against 0.05 and -0.05
OnLineThrough(r, p, w1, w2) ==
    LET s1 == WeekSum(p, w1)
        c1 == WeekCount(p, w1)
        s2 == WeekSum(p, w2)
        c2 == WeekCount(p, w2)
        rise == (s2 * c1) - (s1 * c2)
        den == c1 * c2 * (w2 - w1)
        slope == <<rise, den>>
        final == <<(s1 * c2 * (w2 - w1)) + (rise * (16 - w1)), den>>
        cut == IF FracLT(final, <<G(1), 1>>) THEN <<G(1), 1>>
               ELSE IF FracLT(<<G(10), 1>>, final) THEN <<G(10), 1>>
               ELSE final
    IN  /\ FracEq(r.trend_slope, slope)
        /\ FracEq(r.predicted_final_grade, cut)
        /\ r.trend = "improving" <=> 20 * rise > den * GradeScale
        /\ r.trend = "declining" <=> 20 * rise < -(den * GradeScale)
        /\ r.trend = "stable" <=> /\ 20 * rise <= den * GradeScale
                                  /\ 20 * rise >= -(den * GradeScale)

\* C29: for a (student, subject) pair with grades in exactly two distinct
\* weeks w1 < w2 with weekly means g1 and g2, the prediction has trend_slope
\* (g2 - g1) / (w2 - w1) on the actual week numbers, predicted_final_grade
\* max(1, min(10, g1 + (g2 - g1) * (16 - w1) / (w2 - w1))), and trend
\* 'improving' iff the slope is above 0.05, 'declining' iff it is below
\* -0.05, 'stable' otherwise.
C29_TwoWeekLine ==
    pc = "predicted" /\ "week" \in columns =>
        \A p \in PairsOf(df) : \A w1, w2 \in WeeksOfPair(df, p) :
            (w1 < w2 /\ WeeksOfPair(df, p) = {w1, w2}) =>
                \A k \in PredictionsOf(p) : OnLineThrough(predictions[k], p, w1, w2)

\* the grades 6.0 in week 13 and 5.0 in week 15: slope -0.5, declining, and a
\* final grade of 4.5 inside the range
C29_Witness ==
    /\ pc = "predicted"
    /\ "week" \in columns
    /\ WeeksOfPair(df, <<1, 1>>) = {13, 15}
    /\ Len(predictions) = 1
    /\ predictions[1].trend = "declining"
    /\ FracEq(predictions[1].trend_slope, <<-GradeScale, 2>>)
    /\ FracEq(predictions[1].predicted_final_grade, <<G(9), 2>>)

----------------------------------------------------------------------------
(* generate_recommendations called on its own (src/src/analyzer.py) *)

\* longest list of factor texts handed to generate_recommendations
MaxFactors == 3

\* texts with no key, with each single key, with two keys and with all keys
FactorTexts ==
    {<<"text", S>> : S \in {{}} \cup {{KeyOrder[k]} : k \in 1..Len(KeyOrder)}
                          \cup {{"low average", "sharp drop"},
                                {"declining trend", "low attendance"},
                                {KeyOrder[k] : k \in 1..Len(KeyOrder)}}}

RecommendInit ==
    /\ pc = "generate_recommendations"
    /\ args \in [risk_factors : TablesOf(FactorTexts, MaxFactors)]
    /\ df = <<>>
    /\ columns = {}
    /\ df_clean = <<>>
    /\ risk_students = <<>>
    /\ risk_df = <<>>
    /\ predictions = <<>>
    /\ recommendations = <<>>
    /\ results = <<>>
    /\ subject_stats = <<>>
    /\ report = <<>>
    /\ raised = None
    /\ clock = 0
    /\ library = <<>>
    /\ files = NoFiles
    /\ exit_code = None

GenerateRecommendations ==
    /\ pc = "generate_recommendations"
    /\ recommendations' = generate_recommendations(args.risk_factors)
    /\ pc' = "recommended"
    /\ UNCHANGED <<df, columns, args, df_clean, risk_students, risk_df, predictions,
                 results, subject_stats, report, raised, clock, library,
                 files, exit_code>>

RecommendNext == GenerateRecommendations

SpecRecommend == RecommendInit /\ [][RecommendNext]_vars

\* C12: for every list of risk-factor strings, generate_recommendations
\* returns at most 5 entries and no string occurs twice among them.
C12_AtMostFiveDistinct ==
    pc = "recommended" =>
        /\ Len(recommendations) <= 5
        /\ \A i, j \in 1..Len(recommendations) :
              recommendations[i] = recommendations[j] => i = j

\* the same key is matched by more than one factor text and more than five
\* different recommendations are matched: five come back
C12_Witness ==
    /\ pc = "recommended"
    /\ Len(recommendations) = 5
    /\ \E i, j \in 1..Len(args.risk_factors) :
          /\ i < j
          /\ \E key \in DOMAIN recommendations_map :
                /\ contains_key(args.risk_factors[i], key)
                /\ contains_key(args.risk_factors[j], key)

\* the kinds of factor matched by the factor list
MatchedKinds ==
    {key \in DOMAIN recommendations_map :
        \E i \in 1..Len(args.risk_factors) : contains_key(args.risk_factors[i], key)}

\* the first factor that matches the kind, and the place of the kind among
\* the keys
FirstMatch(key) ==
    CHOOSE i \in 1..Len(args.risk_factors) :
        /\ contains_key(args.risk_factors[i], key)
        /\ \A j \in 1..(i - 1) : ~contains_key(args.risk_factors[j], key)

KeyIndex(key) == CHOOSE k \in 1..Len(KeyOrder) : KeyOrder[k] = key

\* the place of a matched kind in the order of first match
KindRank(key) ==
    1 + Cardinality({other \in MatchedKinds :
                        \/ FirstMatch(other) < FirstMatch(key)
                        \/ /\ FirstMatch(other) = FirstMatch(key)
                           /\ KeyIndex(other) < KeyIndex(key)})

KindAt(n) == CHOOSE key \in MatchedKinds : KindRank(key) = n

Min5(n) == IF n < 5 THEN n ELSE 5

\* min(5, 3k) strings: the first five of the three-item lists of the matched
\* kinds in the order of their first match
FirstFiveOfMatched ==
    /\ Len(recommendations) = Min5(3 * Cardinality(MatchedKinds))
    /\ \A n \in 1..Len(recommendations) :
          recommendations[n] = <<KindAt(((n - 1) \div 3) + 1), ((n - 1) % 3) + 1>>

\* the factor text matches exactly one kind
OneKind(factor) ==
    Cardinality({key \in DOMAIN recommendations_map : contains_key(factor, key)}) = 1

\* C28 as stated: for factors that match k distinct kinds the result is the
\* first min(5, 3k) strings of the matched three-item lists in factor order;
\* the three recommendations of the first factor are all present, no string
\* comes from a third or later factor only when every factor matches one
\* kind, and no factors give no strings.
C28_ThirdFactorNeverContributes ==
    pc = "recommended" =>
        /\ FirstFiveOfMatched
        /\ args.risk_factors = <<>> => recommendations = <<>>
        /\ \A key \in MatchedKinds :
              FirstMatch(key) = 1 /\ KindRank(key) = 1 =>
                 \A j \in 1..3 : \E n \in 1..Len(recommendations) :
                    recommendations[n] = <<key, j>>
        /\ (\A i \in 1..Len(args.risk_factors) : OneKind(args.risk_factors[i])) =>
              \A n \in 1..Len(recommendations) :
                 \E i \in 1..Len(args.risk_factors) :
                    i <= 2 /\ contains_key(args.risk_factors[i], recommendations[n][1])

\* C28, amended: the result is the first min(5, 3k) strings of the three-item
\* lists of the matched kinds in the order of their first match; the three
\* recommendations of the first matched kind are all present, no string comes
\* from a third or later matched kind, and no factors give no strings.
C28_ThirdKindNeverContributes ==
    pc = "recommended" =>
        /\ FirstFiveOfMatched
        /\ args.risk_factors = <<>> => recommendations = <<>>
        /\ \A key \in MatchedKinds :
              KindRank(key) = 1 =>
                 \A j \in 1..3 : \E n \in 1..Len(recommendations) :
                    recommendations[n] = <<key, j>>
        /\ \A n \in 1..Len(recommendations) :
              KindRank(recommendations[n][1]) <= 2

\* the first two factors are of the same single kind and the third factor, of
\* another kind, gives the fourth and the fifth string
C28_Witness ==
    /\ pc = "recommended"
    /\ Len(args.risk_factors) = 3
    /\ args.risk_factors[1] = <<"text", {"low average"}>>
    /\ args.risk_factors[2] = <<"text", {"low average"}>>
    /\ args.risk_factors[3] = <<"text", {"sharp drop"}>>
    /\ recommendations = << <<"low average", 1>>, <<"low average", 2>>,
                            <<"low average", 3>>, <<"sharp drop", 1>>,
                            <<"sharp drop", 2>> >>

----------------------------------------------------------------------------
(* Claims about the mapping returned by analyze_performance *)

\* the subjects of the table in df
Subjects == {df[i].subject : i \in 1..Len(df)}

\* the records of subject c in df
RecordsOf(c) == {i \in 1..Len(df) : df[i].subject = c}

\* C13: for every call that does not fail, the mapping returned by
\* analyze_performance has all of the keys overall, by_subject, by_group,
\* risk_students, trends, correlations, clusters and timestamp, small inputs
\* included.
C13_AllKeysPresent ==
    pc = "analyzed" =>
        {"overall", "by_subject", "by_group", "risk_students", "trends",
         "correlations", "clusters", "timestamp"} \subseteq DOMAIN results

\* C14: for every non-empty table, overall.total_records is the number of
\* rows, overall.total_students the number of distinct student_id values,
\* overall.mean_grade the arithmetic mean of all grades (hence between the
\* smallest and the largest grade), and by_subject has exactly one entry per
\* distinct subject.
C14_OverallTotalsAndMean ==
    (pc = "analyzed" /\ df # <<>>) =>
        LET o == results.overall
            total == SumSeq([i \in 1..Len(df) |-> df[i].grade])
        IN  /\ o.total_records = Len(df)
            /\ o.total_students = Cardinality(Students)
            /\ o.mean_grade[2] > 0
            /\ o.mean_grade[1] * Len(df) = total * o.mean_grade[2]
            /\ \E i \in 1..Len(df) : df[i].grade * o.mean_grade[2] <= o.mean_grade[1]
            /\ \E i \in 1..Len(df) : df[i].grade * o.mean_grade[2] >= o.mean_grade[1]
            /\ DOMAIN results.by_subject = Subjects

\* three records of two students in two subjects whose mean is none of the
\* grades
C14_Witness ==
    /\ pc = "analyzed"
    /\ Len(df) = 3
    /\ results.overall.total_students = 2
    /\ Cardinality(DOMAIN results.by_subject) = 2
    /\ \A i \in 1..Len(df) :
          df[i].grade * results.overall.mean_grade[2] # results.overall.mean_grade[1]

\* C15: in every entry of by_subject, pass_rate is 100 times the share of the
\* subject's records with grade >= 4, excellent_rate is 100 times the share
\* with grade >= 9, and 0 <= excellent_rate <= pass_rate <= 100.
C15_SubjectRates ==
    pc = "analyzed" =>
        \A c \in DOMAIN results.by_subject :
            LET e == results.by_subject[c]
                n == Cardinality(RecordsOf(c))
                passing == Cardinality({i \in RecordsOf(c) : df[i].grade >= 4 * GradeScale})
                top == Cardinality({i \in RecordsOf(c) : df[i].grade >= 9 * GradeScale})
            IN  /\ n > 0
                /\ FracEq(e.pass_rate, <<100 * passing, n>>)
                /\ FracEq(e.excellent_rate, <<100 * top, n>>)
                /\ FracLE(<<0, 1>>, e.excellent_rate)
                /\ FracLE(e.excellent_rate, e.pass_rate)
                /\ FracLE(e.pass_rate, <<100, 1>>)

\* a subject with a failing, a passing and an excellent record: one third
\* excellent, two thirds passing
C15_Witness ==
    /\ pc = "analyzed"
    /\ \E c \in DOMAIN results.by_subject :
          /\ FracEq(results.by_subject[c].excellent_rate, <<100, 3>>)
          /\ FracEq(results.by_subject[c].pass_rate, <<200, 3>>)

\* analyze_performance has returned a list under the key correlations (the
\* text of the except clause is returned for a table without rows only)
HasCorrelationList ==
    pc = "analyzed" /\ df # <<>> /\ "correlations" \in DOMAIN results

\* 100 * correlation^2 of an entry compared with a bound
SquareAbove(e, hundredths) ==
    e.correlation.square[1] * 100 > hundredths * e.correlation.square[2]

\* C17: a correlations list has at most 10 entries, every entry has
\* |correlation| > 0.3, the entries are in non-increasing order of
\* |correlation|, each unordered pair of subjects occurs at most once, and
\* strength is 'strong' iff |correlation| > 0.7, 'moderate' iff
\* 0.5 < |correlation| <= 0.7, 'weak' otherwise.
C17_CorrelationList ==
    HasCorrelationList =>
        LET L == results.correlations
        IN  /\ Len(L) <= 10
            /\ \A k \in 1..Len(L) :
                  /\ SquareAbove(L[k], 9)
                  /\ L[k].strength = "strong" <=> SquareAbove(L[k], 49)
                  /\ L[k].strength = "moderate" <=>
                        (SquareAbove(L[k], 25) /\ ~SquareAbove(L[k], 49))
                  /\ L[k].strength = "weak" <=> ~SquareAbove(L[k], 25)
            /\ \A k \in 1..(Len(L) - 1) :
                  ~FracBelow(L[k].correlation.square, L[k + 1].correlation.square)
            /\ \A i, j \in 1..Len(L) :
                  {L[i].subject1, L[i].subject2} = {L[j].subject1, L[j].subject2}
                      => i = j

\* six subjects with more than ten significant pairs: the list is cut to ten
\* and holds strong, moderate and weak pairs, one of them negative
C17_Witness ==
    /\ HasCorrelationList
    /\ Len(results.correlations) = 10
    /\ Let(<<pivot_table(df), pivot_index(df), pivot_columns(df)>>,
           LAMBDA pv : Len(significant_pairs(pv[1], pv[2], pv[3])) > 10)
    /\ \A st \in {"strong", "moderate", "weak"} :
          \E k \in 1..10 : results.correlations[k].strength = st
    /\ \E k \in 1..10 : results.correlations[k].correlation.sign = -1

\* the pairs of subjects c1 < c2 whose per-student mean grades are perfectly
\* correlated over the students in index
PerfectPairs(index) ==
    Let(<<pivot_table(df), index>>,
        LAMBDA pv :
            {pr \in Subjects \X Subjects :
                /\ pr[1] < pr[2]
                /\ Let(corr_value(pv[1], pv[2], pr[1], pr[2]),
                       LAMBDA corr : /\ ~IsNull(corr)
                                     /\ Val(corr).square[1] = Val(corr).square[2])})

ListedStrong(pr) ==
    \E k \in 1..Len(results.correlations) :
        /\ results.correlations[k].subject1 = pr[1]
        /\ results.correlations[k].subject2 = pr[2]
        /\ results.correlations[k].strength = "strong"

\* C18: whenever two subjects have perfectly correlated per-student average
\* grades across the students of the input table, the correlations list of
\* analyze_performance contains that pair with strength 'strong'.
C18_PerfectPairListedStrong ==
    (pc = "analyzed" /\ df # <<>>) =>
        \A pr \in PerfectPairs(SortedKeys(Students)) :
            "correlations" \in DOMAIN results /\ ListedStrong(pr)

\* C18 as amended: when analyze_performance produces a correlations list,
\* every pair of subjects perfectly correlated across the students with at
\* least 3 subjects is in the list with strength 'strong', unless the list
\* already holds 10 perfectly correlated pairs.
C18_PerfectPairStrongIfComputed ==
    HasCorrelationList =>
        \A pr \in PerfectPairs(pivot_index(df)) :
            \/ ListedStrong(pr)
            \/ /\ Len(results.correlations) = 10
               /\ \A k \in 1..10 :
                     results.correlations[k].correlation.square[1] =
                         results.correlations[k].correlation.square[2]

\* a perfectly correlated pair listed first as strong, followed by pairs
\* that are not perfectly correlated
C18_Witness ==
    /\ HasCorrelationList
    /\ Len(results.correlations) >= 2
    /\ <<results.correlations[1].subject1, results.correlations[1].subject2>>
          \in PerfectPairs(pivot_index(df))
    /\ results.correlations[1].strength = "strong"
    /\ results.correlations[2].strength # "strong"

\* the students with at least min_records records
Qualifying ==
    {s \in Students :
        Cardinality({i \in 1..Len(df) : df[i].student_id = s}) >= args.min_records}

\* C19: clustering is performed exactly when the number n of students with at
\* least min_records records is >= 10; the clusters mapping then has exactly
\* min(4, n // 3) entries cluster_0 .. cluster_{k-1}, every qualifying
\* student is in exactly one cluster so that the student_count values sum to
\* n, and each entry lists at most 10 student ids.
C19_ClustersPartition ==
    pc = "analyzed" =>
        LET n == Cardinality(Qualifying)
            k == IF n \div 3 < 4 THEN n \div 3 ELSE 4
        IN  /\ "clusters" \in DOMAIN results <=> n >= 10
            /\ n >= 10 =>
                  LET cl == results.clusters
                  IN  /\ DOMAIN cl = 0..(k - 1)
                      /\ SumSeq([c \in 1..k |-> cl[c - 1].student_count]) = n
                      /\ \A c \in DOMAIN cl :
                            /\ Len(cl[c].student_ids) <= 10
                            /\ Len(cl[c].student_ids) <= cl[c].student_count
                            /\ \A i \in 1..Len(cl[c].student_ids) :
                                  cl[c].student_ids[i] \in Qualifying
                      /\ \A c, d \in DOMAIN cl : \A i \in 1..Len(cl[c].student_ids) :
                            \A j \in 1..Len(cl[d].student_ids) :
                                cl[c].student_ids[i] = cl[d].student_ids[j]
                                    => (c = d /\ i = j)

\* twelve qualifying students in four clusters: eleven alike in one cluster,
\* of which ten are listed, and student 1 in another
C19_Witness ==
    /\ pc = "analyzed"
    /\ "clusters" \in DOMAIN results
    /\ DOMAIN results.clusters = 0..3
    /\ \E c, d \in 0..3 :
          /\ results.clusters[c].student_count = 11
          /\ Len(results.clusters[c].student_ids) = 10
          /\ results.clusters[d].student_ids = <<1>>

\* C20: analyze_performance raises an error for every table with zero rows,
\* whether it has no column at all or has the columns student_id, subject and
\* grade and no record.
C20_ZeroRowsRaise ==
    (pc # "analyze_performance" /\ df = <<>>) => ~IsNull(raised)

----------------------------------------------------------------------------
(* analyzer.calculate_subject_statistics and utils.generate_report          *)
(* generate_report calls analyze_performance and                            *)
(* calculate_subject_statistics on its table; their return values are kept  *)
(* in results and subject_stats.  A group is a number.  Standard            *)
(* deviations and interpolated quantiles (std, iqr, percentiles) and the    *)
(* two top-5 lists of the report are read by no decision and are left out;  *)
(* the tables have no week or date column.                                  *)

\* grades >= 5, the passing grade of calculate_subject_statistics and of the
\* report summary
passes_five(t) == {i \in 1..Len(t) : t[i].grade >= G(5)}

\* (grades >= 7) & (grades < 9), (grades >= 5) & (grades < 7), grades < 5
good(t) == {i \in 1..Len(t) : t[i].grade >= G(7) /\ t[i].grade < G(9)}
satisfactory(t) == {i \in 1..Len(t) : t[i].grade >= G(5) /\ t[i].grade < G(7)}
fail(t) == {i \in 1..Len(t) : t[i].grade < G(5)}

\* stats['by_group'] of one subject
subject_by_group(subject_data) ==
    [g \in {subject_data[i].group : i \in 1..Len(subject_data)} |->
        LET group_data == RowsWhere(subject_data, "group", g)
        IN  [mean |-> mean_grade(group_data),
             count |-> Len(group_data),
             pass_rate |-> percent(group_data, passes_five(group_data))]]

\* the statistics of one subject
subject_statistics(subject_data, cols) ==
    LET stats ==
            [basic |-> [mean |-> mean_grade(subject_data),
                        median |-> median_grade(subject_data),
                        min |-> min_grade(subject_data),
                        max |-> max_grade(subject_data),
                        range |-> <<max_grade(subject_data)[1]
                                      - min_grade(subject_data)[1], 1>>],
             counts |-> [total_students |-> nunique(subject_data, "student_id"),
                         total_records |-> Len(subject_data),
                         unique_weeks |-> None],
             distribution |->
                 [excellent_count |-> Cardinality(excellent(subject_data)),
                  good_count |-> Cardinality(good(subject_data)),
                  satisfactory_count |-> Cardinality(satisfactory(subject_data)),
                  fail_count |-> Cardinality(fail(subject_data)),
                  excellent_percentage |-> percent(subject_data, excellent(subject_data)),
                  pass_percentage |-> percent(subject_data, passes_five(subject_data))]]
    IN  IF "group" \in cols
        THEN stats @@ ("by_group" :> subject_by_group(subject_data))
        ELSE stats

\* calculate_subject_statistics(df): one entry per subject
calculate_subject_statistics(t, cols) ==
    [c \in {t[i].subject : i \in 1..Len(t)} |->
        subject_statistics(RowsWhere(t, "subject", c), cols)]

\* round(x, 1) of a percentage p / q: tenths of a percent
round1(f) == RoundHalfEven(f[1] * 10, f[2])

\* report['summary']
summary(t, analysis) ==
    [total_students |-> analysis.overall.total_students,
     total_subjects |-> analysis.overall.total_subjects,
     average_grade |-> analysis.overall.mean_grade,
     median_grade |-> analysis.overall.median_grade,
     pass_rate |-> round1(percent(t, passes_five(t))),
     risk_students_count |-> Len(analysis.risk_students),
     risk_percentage |-> round1(<<Len(analysis.risk_students) * 100,
                                  analysis.overall.total_students>>)]

\* the length of analysis['risk_students'][:10]
MaxRiskAnalysis == 10

\* avg_attendance < 0.8, attendance in hundredths
LowAttendance == 80

\* the curriculum item appended before the risk item
report_recommendations_mut(t, cols, analysis, stats) ==
    (IF \E c \in DOMAIN stats : FracLT(stats[c].basic.mean, <<G(5), 1>>)
     THEN << [type |-> "curriculum", priority |-> "medium"] >> ELSE <<>>)
    \o (IF analysis.risk_students # <<>>
        THEN << [type |-> "risk_mitigation", priority |-> "high"] >> ELSE <<>>)
    \o (IF "attendance" \in cols
           /\ SumSeq(Column(t, "attendance")) < LowAttendance * Len(t)
        THEN << [type |-> "attendance", priority |-> "medium"] >> ELSE <<>>)

\* the types of the recommendations of the report, in the order they are
\* appended
report_recommendations(t, cols, analysis, stats) ==
    (IF analysis.risk_students # <<>>
     THEN << [type |-> "risk_mitigation", priority |-> "high"] >> ELSE <<>>)
    \o (IF \E c \in DOMAIN stats : FracLT(stats[c].basic.mean, <<G(5), 1>>)
        THEN << [type |-> "curriculum", priority |-> "medium"] >> ELSE <<>>)
    \o (IF "attendance" \in cols
           /\ SumSeq(Column(t, "attendance")) < LowAttendance * Len(t)
        THEN << [type |-> "attendance", priority |-> "medium"] >> ELSE <<>>)

\* report['metadata']['period']: the first and the last date of a table
\* with a date column
period(t, cols) ==
    IF "date" \in cols /\ t # <<>>
    THEN LET ds == SortedKeys({t[i].date : i \in 1..Len(t)})
         IN  Some([start |-> ds[1], end |-> ds[Len(ds)]])
    ELSE None

\* the mapping generate_report returns
generate_report(t, cols, report_type, analysis, stats) ==
    [metadata |-> [generated_at |-> "isoformat", report_type |-> report_type,
                   data_source |-> "EduViz Dashboard", period |-> period(t, cols)],
     summary |-> summary(t, analysis),
     details |-> [risk_analysis |->
                     SubSeq(analysis.risk_students, 1,
                            IF Len(analysis.risk_students) < MaxRiskAnalysis
                            THEN Len(analysis.risk_students) ELSE MaxRiskAnalysis)],
     recommendations |-> report_recommendations(t, cols, analysis, stats)]

\* longest table handed to generate_report
MaxReportRows == 3

\* grades 3.0, 4.0 and 6.0 of two students, student 1 in two subjects
ReportRowsPlain ==
    {r \in [student_id : 1..2, subject : 1..2, grade : {G(3), G(4), G(6)}] :
        r.student_id = 2 => r.subject = 1}

ReportRowsGroup ==
    [student_id : 1..2, subject : {1}, grade : {G(4), G(6)}, group : 1..2]

ReportRowsAtt ==
    [student_id : {1}, subject : {1}, grade : {G(4), G(6)}, attendance : {50, FullAttendance}]

ReportInit ==
    /\ pc = "generate_report"
    /\ \/ /\ columns = RequiredColumns
          /\ df \in TablesOf(ReportRowsPlain, MaxReportRows)
       \/ /\ columns = RequiredColumns \cup {"group"}
          /\ df \in TablesOf(ReportRowsGroup, MaxReportRows) \ {<<>>}
       \/ /\ columns = RequiredColumns \cup {"attendance"}
          /\ df \in TablesOf(ReportRowsAtt, MaxReportRows) \ {<<>>}
       \/ /\ columns = {}
          /\ df = <<>>
    /\ args \in [report_type : {"detailed"}]
    /\ df_clean = <<>>
    /\ risk_students = <<>>
    /\ risk_df = <<>>
    /\ predictions = <<>>
    /\ recommendations = <<>>
    /\ results = <<>>
    /\ subject_stats = <<>>
    /\ report = <<>>
    /\ raised = None
    /\ clock = 0
    /\ library = <<>>
    /\ files = NoFiles
    /\ exit_code = None

\* analyze_performance(df) is called with its default risk_threshold and
\* min_records.  A table without the grade columns ends in its KeyError; a
\* table without rows ends in the division by total_students = 0 (line 333).
\* The table is the one analyze_performance writes its week column into.
GenerateReport ==
    /\ pc = "generate_report"
    /\ clock' = clock + 1
    /\ IF ~(RequiredColumns \subseteq columns)
       THEN /\ raised' = Some("KeyError")
            /\ pc' = "failed"
            /\ UNCHANGED <<results, subject_stats, report>>
       ELSE \E label \in Labellings(df, DefaultAnalyzeArgs.min_records),
               corr_error \in CorrErrors(df) :
                /\ results' = analyze_performance(df, columns,
                                  DefaultAnalyzeArgs.risk_threshold,
                                  DefaultAnalyzeArgs.min_records, label, corr_error,
                                  clock)
                /\ subject_stats' = calculate_subject_statistics(df, columns)
                /\ IF df = <<>>
                   THEN /\ raised' = Some("ZeroDivisionError")
                        /\ pc' = "failed"
                        /\ UNCHANGED report
                   ELSE /\ report' = generate_report(df, columns, args.report_type,
                                                     results', subject_stats')
                        /\ raised' = None
                        /\ pc' = "reported"
    /\ df' = IF RequiredColumns \subseteq columns THEN with_week(df, columns) ELSE df
    /\ columns' = IF RequiredColumns \subseteq columns
                  THEN with_week_columns(columns) ELSE columns
    /\ UNCHANGED <<args, df_clean, risk_students, risk_df, predictions,
                 recommendations, library, files, exit_code>>

ReportNext == GenerateReport

SpecReport == ReportInit /\ [][ReportNext]_vars

\* 100 times the share of the records in I with grade >= 4
PassShare(I) ==
    <<100 * Cardinality({i \in I : df[i].grade >= 4 * GradeScale}), Cardinality(I)>>

\* C16: every pass-rate figure of the overall or per-subject context counts
\* a record as passing exactly when grade >= 4: the per-subject pass_rate of
\* analyze_performance, the pass_percentage and per-group pass_rate of
\* calculate_subject_statistics and the summary pass_rate of generate_report
\* agree on the same records.
C16_PassRatesUseFour ==
    pc = "reported" =>
        /\ \A c \in Subjects :
              /\ FracEq(results.by_subject[c].pass_rate, PassShare(RecordsOf(c)))
              /\ FracEq(subject_stats[c].distribution.pass_percentage,
                        PassShare(RecordsOf(c)))
              /\ "group" \in columns =>
                    \A g \in DOMAIN subject_stats[c].by_group :
                        FracEq(subject_stats[c].by_group[g].pass_rate,
                               PassShare({i \in RecordsOf(c) : df[i].group = g}))
        /\ report.summary.pass_rate = round1(PassShare(1..Len(df)))

\* the places of the items of one type in the recommendations of the report
ItemsOfType(type) ==
    {k \in 1..Len(report.recommendations) : report.recommendations[k].type = type}

\* the place of an item type in the order risk, curriculum, attendance
TypeRank(type) ==
    CASE type = "risk_mitigation" -> 1
      [] type = "curriculum" -> 2
      [] type = "attendance" -> 3
      [] OTHER -> 0

\* the sum of column c over the records in I
SumOver(I, c) == SumSeq(Column(Select(df, I), c))

\* C30: the recommendations of the report hold the high-priority
\* risk_mitigation item iff analyze_performance flagged a risk student, the
\* medium-priority curriculum item iff some subject has a mean grade below 5,
\* and the medium-priority attendance item iff there is an attendance column
\* with a mean below 0.8; the items come in that order, so no medium item
\* precedes a high one and no type occurs twice.
C30_ReportRecommendations ==
    pc = "reported" =>
        /\ ItemsOfType("risk_mitigation") # {} <=> Len(results.risk_students) >= 1
        /\ ItemsOfType("curriculum") # {}
              <=> \E c \in Subjects :
                     SumOver(RecordsOf(c), "grade") < G(5) * Cardinality(RecordsOf(c))
        /\ ItemsOfType("attendance") # {}
              <=> /\ "attendance" \in columns
                  /\ 10 * SumOver(1..Len(df), "attendance") < 8 * FullAttendance * Len(df)
        /\ \A k \in 1..Len(report.recommendations) :
              /\ TypeRank(report.recommendations[k].type) >= 1
              /\ report.recommendations[k].priority =
                    IF report.recommendations[k].type = "risk_mitigation"
                    THEN "high" ELSE "medium"
        /\ \A i, k \in 1..Len(report.recommendations) :
              i < k => TypeRank(report.recommendations[i].type)
                          < TypeRank(report.recommendations[k].type)

\* a table with an attendance column whose only student is flagged, whose
\* subject has a mean below 5 and whose attendance is below 0.8: the three
\* items in order
C30_Witness ==
    /\ pc = "reported"
    /\ "attendance" \in columns
    /\ Len(results.risk_students) = 1
    /\ Len(report.recommendations) = 3
    /\ report.recommendations[1].type = "risk_mitigation"
    /\ report.recommendations[2].type = "curriculum"
    /\ report.recommendations[3].type = "attendance"

----------------------------------------------------------------------------
(* data_loader.generate_sample_data                                         *)
(* The random draws of a run are inputs of the action.  A grade of the      *)
(* generated table is a fraction of grade units, since the adjustments      *)
(* multiply it by 0.7 and 1.3; a date is the number of days after           *)
(* start_date.  In a run every student draws what the others draw, except   *)
(* one student who draws on their own.                                      *)

\* max(1, min(10, round(final_grade, 1))) for a sum x of the two draws given
\* in hundredths of a grade point
final_grade(x) ==
    LET rounded == RoundHalfEven(x, 10) * (GradeScale \div 10)
    IN  IF rounded < G(1) THEN G(1) ELSE IF rounded > G(10) THEN G(10) ELSE rounded

\* int(0.05 * num_students) and int(0.1 * num_students)
low_count(num_students) == (5 * num_students) \div 100
high_count(num_students) == num_students \div 10

\* df.loc[low_performers, 'grade'] *= 0.7
low_adjusted(g, is_low) == IF is_low THEN <<7 * g[1], 10 * g[2]>> ELSE g

\* np.minimum(grade * 1.3, 10) for the high performers
high_adjusted(g, is_high) ==
    IF ~is_high THEN g
    ELSE IF FracLT(<<G(10), 1>>, <<13 * g[1], 10 * g[2]>>) THEN <<G(10), 1>>
    ELSE <<13 * g[1], 10 * g[2]>>

\* the records of one student in one week: one per drawn subject
week_records(student, week, draw, is_low, is_high) ==
    [k \in 1..Len(draw.subjects) |->
        [student_id |-> student, group |-> draw.group, subject |-> draw.subjects[k],
         grade |-> high_adjusted(low_adjusted(<<final_grade(draw.sum), 1>>, is_low),
                                 is_high),
         attendance |-> draw.attendance, date |-> 7 * week, week |-> week]]

\* generate_sample_data(num_students, num_weeks) with the draws of every
\* (week, student) and the two samples of students
generate_sample_data(num_students, num_weeks, draws, low_performers, high_performers) ==
    Concat([week \in 1..num_weeks |->
        Concat([student \in 1..num_students |->
            week_records(student, week, draws[week][student],
                         student \in low_performers, student \in high_performers)])])

\* most students of a generated table
MaxSampleStudents == 20

\* most weeks of a generated table
MaxSampleWeeks == 1

\* one student's draws of a week: 2 to 4 of the 6 subjects, the sum
\* base_grade + grade_variation (-0.3, 1.04, 1.46, 7.0, 12.2), the attendance
\* and the group
SampleDraws ==
    [subjects : {<<1, 2>>, <<3, 1, 2>>, <<6, 5, 4, 3>>},
     sum : {-30, 104, 146, 700, 1220},
     attendance : {50, FullAttendance},
     group : {1}]

\* np.random.choice(student_ids, size, replace=False), among the first
\* three students
Samples(num_students, size) ==
    {S \in SUBSET {st \in 1..num_students : st <= 3} : Cardinality(S) = size}

SampleInit ==
    /\ pc = "generate_sample_data"
    /\ args \in [num_students : {1, 2, MaxSampleStudents}, num_weeks : 1..MaxSampleWeeks]
    /\ df = <<>>
    /\ columns = {}
    /\ df_clean = <<>>
    /\ risk_students = <<>>
    /\ risk_df = <<>>
    /\ predictions = <<>>
    /\ recommendations = <<>>
    /\ results = <<>>
    /\ subject_stats = <<>>
    /\ report = <<>>
    /\ raised = None
    /\ clock = 0
    /\ library = <<>>
    /\ files = NoFiles
    /\ exit_code = None

GenerateSampleData ==
    /\ pc = "generate_sample_data"
    /\ \E common \in SampleDraws, own \in SampleDraws,
          low_performers \in Samples(args.num_students, low_count(args.num_students)),
          high_performers \in Samples(args.num_students, high_count(args.num_students)) :
          df' = generate_sample_data(args.num_students, args.num_weeks,
                    [week \in 1..args.num_weeks |->
                        [student \in 1..args.num_students |->
                            IF student = 1 THEN own ELSE common]],
                    low_performers, high_performers)
    /\ columns' = {"student_id", "group", "subject", "grade", "attendance", "date", "week"}
    /\ clock' = clock + 1
    /\ pc' = "generated"
    /\ UNCHANGED <<args, df_clean, risk_students, risk_df, predictions,
                 recommendations, results, subject_stats, report, raised, library,
                 files, exit_code>>

SampleNext == GenerateSampleData

SpecSample == SampleInit /\ [][SampleNext]_vars

\* C25: for every num_students >= 1 and num_weeks >= 1, every record
\* produced by generate_sample_data has 1 <= grade <= 10 (also after the
\* low-performer and high-performer adjustments), no missing student_id,
\* subject or grade, attendance in [0, 1], and the table has exactly
\* num_students distinct student ids.
C25_SampleRecordsValid ==
    pc = "generated" =>
        /\ \A i \in 1..Len(df) :
              /\ FracLE(<<G(1), 1>>, df[i].grade) /\ FracLE(df[i].grade, <<G(10), 1>>)
              /\ {"student_id", "subject", "grade"} \subseteq DOMAIN df[i]
              /\ 0 <= df[i].attendance /\ df[i].attendance <= FullAttendance
        /\ nunique(df, "student_id") = args.num_students

----------------------------------------------------------------------------
(* The table of the caller.                                                 *)
(* clean_data, analyze_performance, identify_at_risk_students and           *)
(* predict_final_grades are called on a table that may have a date column   *)
(* and no week column, and analyze_performance is called a second time on   *)
(* the table object of its first call.  df and columns are the table as the *)
(* caller sees it.                                                          *)

\* longest table of freely chosen rows handed to the calls
MaxCallRows == 2

\* Monday 1 January, Tuesday 9 January (week 2), Sunday 21 January (week 3)
CallDates == {1, 9, 21}

CallRowsDate == [student_id : 1..2, subject : {1}, grade : {G(3), G(8)}, date : CallDates]
CallRowsWeek == [student_id : 1..2, subject : {1}, grade : {G(3), G(8)}, week : 1..3]

\* raw rows with a date cell: missing (NaT), 9 January, 9 February
RawRowsDate ==
    [student_id : {<<"int", 1>>}, subject : {Some("Math")},
     grade : {None, Some(G(8))}, date : {None, Some(9), Some(40)}]

AnalyzerCalls ==
    {"analyze_performance", "identify_at_risk_students", "predict_final_grades"}

CallsInit ==
    /\ \/ /\ pc = "clean_data"
          /\ columns = BaseColumns \cup {"date"}
          /\ df \in TablesOf(RawRowsDate, MaxCallRows)
          /\ args = <<>>
       \/ /\ pc \in AnalyzerCalls
          /\ \/ /\ columns = BaseColumns \cup {"date"}
                /\ df \in TablesOf(CallRowsDate, MaxCallRows) \ {<<>>}
             \/ /\ columns = BaseColumns \cup {"week"}
                /\ df \in TablesOf(CallRowsWeek, MaxCallRows) \ {<<>>}
             \/ /\ columns = BaseColumns
                /\ df = ClusterTable(MinClusterStudents, 0)
          /\ args = [risk_threshold |-> G(5), min_records |-> 1,
                     threshold |-> DefaultThreshold, min_weeks |-> 2,
                     decline_threshold |-> DefaultDecline, current_week |-> None]
    /\ df_clean = <<>>
    /\ risk_students = <<>>
    /\ risk_df = <<>>
    /\ predictions = <<>>
    /\ recommendations = <<>>
    /\ results = <<>>
    /\ subject_stats = <<>>
    /\ report = <<>>
    /\ raised = None
    /\ clock = 0
    /\ library = <<>>
    /\ files = NoFiles
    /\ exit_code = None

\* The second call of analyze_performance on the same table object, with the
\* same arguments.  KMeans has random_state=42 and pandas is the pandas of
\* the first call: on an equal table the library calls do what they did.
AnalyzeAgain ==
    /\ pc = "analyzed"
    /\ clock' = clock + 1
    /\ results' = analyze_performance(df, columns, args.risk_threshold,
                                      args.min_records, library.kmeans,
                                      library.pivot_raises, clock)
    /\ risk_students' = results'.risk_students
    /\ df' = with_week(df, columns)
    /\ columns' = with_week_columns(columns)
    /\ raised' = None
    /\ pc' = "analyzed_again"
    /\ UNCHANGED <<args, df_clean, risk_df, predictions, recommendations,
                 subject_stats, report, library, files, exit_code>>

CallsNext ==
    \/ CleanData
    \/ AnalyzePerformance
    \/ AnalyzeAgain
    \/ IdentifyAtRiskStudents
    \/ PredictFinalGrades

SpecCalls == CallsInit /\ [][CallsNext]_vars

\* the mappings a and b have the same keys other than timestamp, with equal
\* values
EqualButTimestamp(a, b) ==
    /\ (DOMAIN a) \ {"timestamp"} = (DOMAIN b) \ {"timestamp"}
    /\ \A k \in (DOMAIN a) \ {"timestamp"} : a[k] = b[k]

\* C21: calling analyze_performance twice in succession on the same table
\* object returns results that are equal in every field except timestamp.
C21_SecondCallEqual ==
    [][(pc = "analyzed" /\ pc' = "analyzed_again")
          => EqualButTimestamp(results, results')]_vars

\* the second call has returned on a table that came with a date column and
\* got its week column from the first call; a risk student has a trend, the
\* weekly means have a fitted line, and the two timestamps differ
C21_Witness ==
    /\ pc = "analyzed_again"
    /\ "date" \in columns /\ "week" \in columns
    /\ \A i \in 1..Len(df) : df[i].week = isocalendar_week(df[i].date)
    /\ \E k \in 1..Len(risk_students) : "trend" \in DOMAIN risk_students[k]
    /\ "overall_trend" \in DOMAIN results.trends
    /\ results.timestamp = 1

\* C22: none of clean_data, analyze_performance, identify_at_risk_students
\* and predict_final_grades changes the table passed to it: after the call
\* the caller's table has the same columns and the same rows as before,
\* including when the table has a date column and no week column.
C22_CallerTableUnchanged ==
    [][(pc \in AnalyzerCalls \cup {"clean_data"})
          => (df' = df /\ columns' = columns)]_vars

----------------------------------------------------------------------------
(* scripts/generate_report.py main: the report command                      *)
(* One run of the command is one action.  The names of the report files     *)
(* carry the report type and the time; they are new names, written          *)
(* JsonPath and HtmlPath.  An exception that no except clause catches ends  *)
(* the interpreter with exit status 1.                                      *)

OutputDir == "reports"
JsonPath == "reports/report.json"
HtmlPath == "reports/report.html"
VizDir == "reports/visualizations"
VizPath == "reports/visualizations/figures.html"

\* Path.mkdir(exist_ok=True) raises FileExistsError for a path that exists
\* and is no directory
mkdir_raises(fs, path) == path \in DOMAIN fs /\ fs[path].kind # "dir"

mkdir(fs, path) ==
    [p \in (DOMAIN fs) \cup {path} |-> IF p \in DOMAIN fs THEN fs[p] ELSE Directory]

\* open(path, 'w') and the write of content
write_file(fs, path, content) ==
    [p \in (DOMAIN fs) \cup {path} |->
        IF p = path THEN [kind |-> "file", content |-> content] ELSE fs[p]]

\* clean_data raises AttributeError at .dt (line 131) for a date column that
\* is not datetime64
clean_raises(file) == "date" \in file.columns /\ file.dates # "datetime64"

\* the cleaned table as the analyzer functions read it: every cell known
cleaned_rows(t) ==
    [i \in 1..Len(t) |->
        [c \in DOMAIN t[i] |-> IF c = "student_id" THEN t[i][c][2] ELSE Val(t[i][c])]]

cleaned_columns(cols) ==
    IF "date" \in cols THEN cols \cup {"week", "month", "day_of_week"} ELSE cols

\* the end of a run: return code, or the uncaught exception
Returned(code, fs, rep) ==
    [exit_code |-> Some(code), raised |-> None, files |-> fs, report |-> rep]
Uncaught(e, fs, rep) ==
    [exit_code |-> Some(1), raised |-> Some(e), files |-> fs, report |-> rep]

\* the -v branch: the directory is created before the try block, the figures
\* are rendered and saved inside it; None stands for the FileExistsError
visualizations(fs, render_raises) ==
    IF mkdir_raises(fs, VizDir) THEN None
    ELSE IF render_raises THEN Some(mkdir(fs, VizDir))
    ELSE Some(write_file(mkdir(fs, VizDir), VizPath, "figures"))

\* main() from the creation of the output directory on: the two report
\* files and, with -v, the visualizations
main_outputs(fs, a, render_raises, rep) ==
    IF mkdir_raises(fs, OutputDir) THEN Uncaught("FileExistsError", fs, rep)
    ELSE Let(write_file(write_file(mkdir(fs, OutputDir), JsonPath, rep), HtmlPath, rep),
             LAMBDA written :
                IF ~a.visualizations THEN Returned(0, written, rep)
                ELSE IF IsNull(visualizations(written, render_raises))
                     THEN Uncaught("FileExistsError", written, rep)
                ELSE Returned(0, Val(visualizations(written, render_raises)), rep))

\* main() from generate_report(df_clean, args.type) on, for the cleaned
\* table t.  The correlation step of analyze_performance gets a table with
\* rows, which pivot_table accepts.
main_report(fs, a, render_raises, now, t, cols) ==
    IF t = <<>> THEN Uncaught("generate_report", fs, <<>>)
    ELSE Let(analyze_performance(t, cols, DefaultAnalyzeArgs.risk_threshold,
                                 DefaultAnalyzeArgs.min_records, <<>>, FALSE, now),
             LAMBDA analysis :
                Let(generate_report(t, cols, a.type, analysis,
                                    calculate_subject_statistics(t, cols)),
                    LAMBDA rep : main_outputs(fs, a, render_raises, rep)))

\* main() with the arguments a on the file system fs
report_main(fs, a, render_raises, now) ==
    IF a.data \notin DOMAIN fs THEN Returned(1, fs, <<>>)
    ELSE IF ~IsNull(load_student_data(fs, a.data).raised) THEN Returned(1, fs, <<>>)
    ELSE IF clean_raises(fs[a.data]) THEN Returned(1, fs, <<>>)
    ELSE Let(cleaned_rows(clean_data(fs[a.data].rows, fs[a.data].columns)),
             LAMBDA t : main_report(fs, a, render_raises, now, t,
                                    cleaned_columns(fs[a.data].columns)))

\* what is in the output directory before the run: nothing, the directory,
\* the directory with its visualizations directory, or with a file of that
\* name
OutputStates ==
    {NoFiles, OutputDir :> Directory,
     (OutputDir :> Directory) @@ (VizDir :> Directory),
     (OutputDir :> Directory) @@ (VizDir :> [kind |-> "file", content |-> "notes"])}

MainInit ==
    /\ pc = "main"
    /\ args \in [data : {DataPath}, type : {"weekly", "full"}, visualizations : BOOLEAN]
    /\ \E out \in OutputStates :
          files \in {out, out @@ (DataPath :> Directory)}
                    \cup {out @@ (DataPath :> f) : f \in DataFiles}
    /\ df = <<>>
    /\ columns = {}
    /\ df_clean = <<>>
    /\ risk_students = <<>>
    /\ risk_df = <<>>
    /\ predictions = <<>>
    /\ recommendations = <<>>
    /\ results = <<>>
    /\ subject_stats = <<>>
    /\ report = <<>>
    /\ raised = None
    /\ clock = 0
    /\ library = <<>>
    /\ exit_code = None

Main ==
    /\ pc = "main"
    /\ \E render_raises \in (IF args.visualizations THEN BOOLEAN ELSE {FALSE}) :
          LET end == report_main(files, args, render_raises, clock)
          IN  /\ exit_code' = end.exit_code
              /\ raised' = end.raised
              /\ files' = end.files
              /\ report' = end.report
    /\ clock' = clock + 1
    /\ pc' = "exited"
    /\ UNCHANGED <<df, columns, args, df_clean, risk_students, risk_df, predictions,
                 recommendations, results, subject_stats, library>>

MainNext == Main

SpecMain == MainInit /\ [][MainNext]_vars

\* loading or cleaning the data file raises
LoadFails ==
    \/ ~IsNull(load_student_data(files, args.data).raised)
    \/ clean_raises(files[args.data])

\* C24: the report command returns exit code 1 and writes no report file
\* when the data file does not exist or when loading or cleaning raises; it
\* returns 0 when the JSON and HTML reports were written, and a failure while
\* rendering the optional visualizations does not change that 0.
C24_ExitCodes ==
    pc = "exited" =>
        /\ (args.data \notin DOMAIN files \/ LoadFails) =>
              /\ exit_code = Some(1)
              /\ JsonPath \notin DOMAIN files /\ HtmlPath \notin DOMAIN files
        /\ (JsonPath \in DOMAIN files /\ HtmlPath \in DOMAIN files) =>
              exit_code = Some(0)

====
